---- MODULE Spec2Model ----
(***************************************************************************)
(* Verification model of the Moon repository (ohlulu/Moon):                *)
(*   - LeverageCalculator          src/src/services/leverage_calculator.py *)
(*   - VolumeProfile.calculate     src/src/services/indicators/            *)
(*                                 volume_profile.py                       *)
(*   - MarketAnalyzer              src/src/services/analyze_market.py      *)
(*   - the ranking drivers         src/src/analyze_spot.py,                *)
(*                                 analyze_swap.py, analyze_grid.py        *)
(*                                                                         *)
(* Real numbers are fixed point: scores, volatilities and leverages are    *)
(* integers in units of 1/S; prices of the analyzer are in units of 1/PS.  *)
(***************************************************************************)
EXTENDS Integers, Sequences, FiniteSets, TLC

VARIABLES
    lev_cfg,      \* LeverageCalculator: [min, max] set by __init__
    lev_call,     \* arguments and outcome of the latest calculate() call
    lev_prev,     \* arguments and outcome of the call before it
    vp,           \* VolumeProfile.calculate: locals of the running call
    an,           \* MarketAnalyzer.analyze_spot / analyze_swap: running call
    dr,           \* ranking driver: locals of the running batch
    rsi,          \* RSI.calculate: locals of the running call
    bb,           \* BollingerBands.calculate: locals of the running call
    px,           \* Indicator.calculate: the caller's frame and the frame returned
    sw,           \* SwapAnalyzerV2: calculate and analyze_signals on one frame
    pl,           \* two runs of a pipeline on one caller's frame
    gr,           \* GridAnalyzer.analyze: locals of the running call
    ir            \* IndicatorRegistry and IndicatorManager: the registry and the active list

vars == <<lev_cfg, lev_call, lev_prev, vp, an, dr, rsi, bb, px, sw, pl, gr, ir>>

Idle == [pc |-> "idle"]

(***************************************************************************)
(* Fixed-point arithmetic                                                  *)
(***************************************************************************)
S == 10000

LN2 == 6931

Abs(n) == IF n < 0 THEN -n ELSE n

Min2(a, b) == IF a <= b THEN a ELSE b

Max2(a, b) == IF a >= b THEN a ELSE b

RECURSIVE Pow2(_)
Pow2(n) == IF n = 0 THEN 1 ELSE 2 * Pow2(n - 1)

\* e^r for 0 <= r < ln 2, by its Taylor polynomial of degree 6
ExpFrac(r) ==
    LET t2 == (r * r) \div (2 * S)
        t3 == (t2 * r) \div (3 * S)
        t4 == (t3 * r) \div (4 * S)
        t5 == (t4 * r) \div (5 * S)
        t6 == (t5 * r) \div (6 * S)
    IN  S + r + t2 + t3 + t4 + t5 + t6

\* math.exp(-y) for y >= 0
ExpNeg(y) ==
    LET n == y \div LN2
        r == y % LN2
    IN  IF n >= 15 THEN 0 ELSE (S * S) \div (ExpFrac(r) * Pow2(n))

\* halve or double x until it lies in [S, 2S); counts the halvings
RECURSIVE LnNorm(_, _)
LnNorm(x, n) ==
    IF x >= 2 * S THEN LnNorm(x \div 2, n + 1)
    ELSE IF x < S THEN LnNorm(2 * x, n - 1)
    ELSE <<x, n>>

\* math.log(x) for x > 0:  ln x = n ln 2 + 2 atanh((m-1)/(m+1))
Ln(x) ==
    LET nm == LnNorm(x, 0)
        m  == nm[1]
        z  == ((m - S) * S) \div (m + S)
        z2 == (z * z) \div S
        z3 == (z * z2) \div S
        z5 == (z3 * z2) \div S
        z7 == (z5 * z2) \div S
    IN  nm[2] * LN2 + 2 * (z + z3 \div 3 + z5 \div 5 + z7 \div 7)

\* math.log10(n) of a positive integer n
Log10Int(n) == (Ln(n * S) * S) \div Ln(10 * S)

\* math.pow(s, w) for 0 <= s <= 1 and 0 < w <= 1
PowFx(s, w) == IF s = 0 THEN 0 ELSE ExpNeg(((0 - Ln(s)) * w) \div S)

(***************************************************************************)
(* LeverageCalculator                                                      *)
(***************************************************************************)
RankTop == 20

RankMid == 150

RankBottom == 500

BaseNormal == 150

BaseMax == 350

\* rank = max(1, min(500, market_cap_rank))
ClampRank(market_cap_rank) == Max2(1, Min2(RankBottom, market_cap_rank))

NormalVolatility(market_cap_rank) ==
    (BaseNormal * (S + Log10Int(ClampRank(market_cap_rank)) \div 2)) \div S

MaxVolatility(market_cap_rank) ==
    (BaseMax * (S + (Log10Int(ClampRank(market_cap_rank)) * 6) \div 10)) \div S

\* the sigmoid steepness k, times 10 (the last branch steps by 0.2)
SteepnessK10(market_cap_rank) ==
    LET rank == ClampRank(market_cap_rank)
    IN  IF rank <= RankTop THEN 0 - 3000
        ELSE IF rank <= RankMid THEN (0 - 2500) + (rank - RankTop) * 10
        ELSE (0 - 2000) + (rank - RankMid) * 2

\* 1 / (1 + e^z)
Sigmoid(z) ==
    IF z <= 0 THEN (S * S) \div (S + ExpNeg(0 - z))
    ELSE (S * ExpNeg(z)) \div (S + ExpNeg(z))

_calculate_volatility_score(volatility, market_cap_rank) ==
    LET normal_volatility == NormalVolatility(market_cap_rank)
        max_volatility    == MaxVolatility(market_cap_rank)
        k10   == SteepnessK10(market_cap_rank)
        d     == volatility - normal_volatility
        \* k * (volatility - normal_volatility); k10 < 0
        z     == IF d >= 0 THEN 0 - (((0 - k10) * d) \div 10)
                 ELSE ((0 - k10) * (0 - d)) \div 10
        score == Sigmoid(z)
    IN  IF volatility > max_volatility
        THEN (score * ExpNeg(5 * (volatility - max_volatility))) \div S
        ELSE score

_calculate_trend_score(trend_strength) == PowFx(trend_strength, 7000)

_calculate_volume_score(volume_stability) ==
    IF volume_stability <= 0 THEN 0
    ELSE (Ln(S + 9 * volume_stability) * S) \div Ln(10 * S)

_calculate_composite_score(volatility_score, trend_score, volume_score) ==
    LET a == PowFx(volatility_score, 5000)
        b == PowFx(trend_score, 3000)
        c == PowFx(volume_score, 2000)
    IN  (((a * b) \div S) * c) \div S

\* round(x, 1): to the nearest tenth, ties to even
RoundTenth(x) ==
    LET q == x \div (S \div 10)
        r == x % (S \div 10)
        h == S \div 20
    IN  (S \div 10) * (IF r > h \/ (r = h /\ q % 2 = 1) THEN q + 1 ELSE q)

\* lines 189-200: relative_level = (final_leverage - min) / leverage_range
\* against 0.33 and 0.66
RiskLevel_OverMax(cfg, final_leverage) ==
    IF (final_leverage - cfg.min) * 100 <= 33 * cfg.max THEN "low"
    ELSE IF (final_leverage - cfg.min) * 100 <= 66 * cfg.max THEN "medium"
    ELSE "high"

RiskLevel(cfg, final_leverage) ==
    LET rel_num == final_leverage - cfg.min
        leverage_range == cfg.max - cfg.min
    IN  IF rel_num * 100 <= 33 * leverage_range THEN "low"
        ELSE IF rel_num * 100 <= 66 * leverage_range THEN "medium"
        ELSE "high"

\* LeverageCalculator.calculate: the returned LeverageInfo, or the exception
calculate(cfg, volatility, trend_strength, volume_stability, market_cap_rank) ==
    LET leverage_range   == cfg.max - cfg.min
        volatility_score == _calculate_volatility_score(volatility, market_cap_rank)
        trend_score      == _calculate_trend_score(trend_strength)
        volume_score     == _calculate_volume_score(volume_stability)
        composite_score  == _calculate_composite_score(volatility_score,
                                                       trend_score, volume_score)
        base_leverage    == cfg.min + (leverage_range * composite_score) \div S
        multiplier10     == IF volatility > MaxVolatility(market_cap_rank) THEN 7
                            ELSE IF trend_strength > 8000 /\ volume_stability > 7000
                                 THEN 11
                            ELSE 10
        scaled           == (base_leverage * multiplier10) \div 10
        final_leverage   == Max2(cfg.min, Min2(cfg.max, scaled))
        risk_level       == RiskLevel(cfg, final_leverage)
    IN  IF leverage_range = 0
        THEN [outcome |-> "ZeroDivisionError"]
        ELSE [outcome            |-> "returned",
              suggested_leverage |-> RoundTenth(final_leverage),
              max_leverage       |-> cfg.max,
              risk_level         |-> risk_level,
              final_leverage     |-> final_leverage,
              volatility_score   |-> volatility_score,
              composite_score    |-> composite_score]

\* construction parameters (max_leverage, min_leverage) of the calculators
LevConfigs ==
    { [min |-> 40000, max |-> 80000],     \* the defaults
      [min |-> 10000, max |-> 40000],     \* the "conservative" example
      [min |-> 40400, max |-> 80000],
      [min |-> 40000, max |-> 79600],
      [min |-> 40000, max |-> 40000] }

MaxVolIdx == 6

VolStep == 50

\* finite volatilities >= 0: a fine grid near the bands and three far values
Volatilities == { i * VolStep : i \in 0..MaxVolIdx } \cup {400, 1000, 5000}

Strengths == {0, 5000, 9000, S}

Ranks == {0 - 3, 1, 100, 500}

LevArgs == [volatility: Volatilities, trend_strength: Strengths,
            volume_stability: Strengths, market_cap_rank: Ranks]

NoCall == [pc |-> "none"]

LevInit ==
    /\ lev_cfg \in LevConfigs
    /\ lev_call = NoCall
    /\ lev_prev = NoCall

\* one call of calculate(); the call before it is kept for comparison, and
\* the second call of a run varies the volatility only
LevCalculate ==
    \E a \in LevArgs :
        /\ lev_call.pc = "none" \/ lev_prev.pc = "none"
        /\ lev_call.pc = "done" =>
              /\ a.trend_strength = lev_call.args.trend_strength
              /\ a.volume_stability = lev_call.args.volume_stability
              /\ a.market_cap_rank = lev_call.args.market_cap_rank
        /\ lev_prev' = lev_call
        /\ lev_call' = [pc |-> "done", args |-> a,
                        out |-> calculate(lev_cfg, a.volatility, a.trend_strength,
                                          a.volume_stability, a.market_cap_rank)]
        /\ UNCHANGED <<lev_cfg, vp, an, dr, rsi, bb, px, sw, pl, gr, ir>>

LevNext == LevCalculate

LeverageInit == LevInit /\ vp = Idle /\ an = Idle /\ dr = Idle /\ rsi = Idle /\ bb = Idle /\ px = Idle /\ sw = Idle /\ pl = Idle /\ gr = Idle /\ ir = Idle

SpecLeverage == LeverageInit /\ [][LevNext]_vars

\* C1: every returned suggested_leverage (clamped, then rounded to one decimal)
\* lies in [min_leverage, max_leverage].
C1_LeverageWithinBounds ==
    (lev_call.pc = "done" /\ lev_call.out.outcome = "returned") =>
        /\ lev_cfg.min <= lev_call.out.suggested_leverage
        /\ lev_call.out.suggested_leverage <= lev_cfg.max

\* the two latest calls agree on everything but the volatility
SameButVolatility ==
    /\ lev_prev.pc = "done" /\ lev_call.pc = "done"
    /\ lev_prev.out.outcome = "returned" /\ lev_call.out.outcome = "returned"
    /\ lev_prev.args.trend_strength = lev_call.args.trend_strength
    /\ lev_prev.args.volume_stability = lev_call.args.volume_stability
    /\ lev_prev.args.market_cap_rank = lev_call.args.market_cap_rank

\* C2: with trend strength, volume stability and rank fixed, a volatility v2
\* at or above v1 >= normal_volatility(rank) never gets more leverage than v1.
C2_NonIncreasingAboveNormal ==
    (/\ SameButVolatility
     /\ NormalVolatility(lev_prev.args.market_cap_rank) <= lev_prev.args.volatility
     /\ lev_prev.args.volatility <= lev_call.args.volatility) =>
        lev_call.out.suggested_leverage <= lev_prev.out.suggested_leverage

\* the risk tier of a leverage x by its relative position in [min, max]
TierOf(cfg, x) ==
    IF (x - cfg.min) * 100 <= 33 * (cfg.max - cfg.min) THEN "low"
    ELSE IF (x - cfg.min) * 100 <= 66 * (cfg.max - cfg.min) THEN "medium"
    ELSE "high"

\* C20: with min_leverage < max_leverage, the returned risk_level is the tier
\* of the returned suggested_leverage: low up to 33% of the range, medium up
\* to 66%, high above.
C20_RiskTierOfSuggested ==
    (lev_call.pc = "done" /\ lev_call.out.outcome = "returned"
        /\ lev_cfg.min < lev_cfg.max) =>
        lev_call.out.risk_level = TierOf(lev_cfg, lev_call.out.suggested_leverage)

\* C20 as amended: the returned risk_level is the tier of the clamped
\* leverage before it is rounded to one decimal.
C20_RiskTierOfUnrounded ==
    (lev_call.pc = "done" /\ lev_call.out.outcome = "returned"
        /\ lev_cfg.min < lev_cfg.max) =>
        lev_call.out.risk_level = TierOf(lev_cfg, lev_call.out.final_leverage)

\* calls returning each of the three tiers, one of them with a leverage that
\* rounds across a tier boundary
C20_Witness ==
    /\ lev_call.pc = "done" /\ lev_prev.pc = "done"
    /\ lev_call.out.outcome = "returned" /\ lev_prev.out.outcome = "returned"
    /\ lev_cfg.min < lev_cfg.max
    /\ lev_call.out.risk_level # lev_prev.out.risk_level
    /\ TierOf(lev_cfg, lev_call.out.suggested_leverage)
            # TierOf(lev_cfg, lev_call.out.final_leverage)

\* _get_rank_based_params: the three values returned for a rank
_get_rank_based_params(market_cap_rank) ==
    [normal_volatility |-> NormalVolatility(market_cap_rank),
     max_volatility |-> MaxVolatility(market_cap_rank),
     k10 |-> SteepnessK10(market_cap_rank)]

MaxRankGap == 3

\* a call of _get_rank_based_params for a rank of 1..500, then a call for a
\* rank up to MaxRankGap above it
RankParams ==
    \E rank \in 1..RankBottom :
        /\ lev_call.pc = "none" \/ lev_prev.pc = "none"
        /\ lev_call.pc = "params" =>
              (rank > lev_call.rank /\ rank <= lev_call.rank + MaxRankGap)
        /\ lev_prev' = lev_call
        /\ lev_call' = [pc |-> "params", rank |-> rank,
                        out |-> _get_rank_based_params(rank)]
        /\ UNCHANGED <<lev_cfg, vp, an, dr, rsi, bb, px, sw, pl, gr, ir>>

RankParamsInit ==
    /\ lev_cfg = [min |-> 4 * S, max |-> 8 * S]
    /\ lev_call = NoCall /\ lev_prev = NoCall
    /\ vp = Idle /\ an = Idle /\ dr = Idle /\ rsi = Idle /\ bb = Idle /\ px = Idle
    /\ sw = Idle /\ pl = Idle /\ gr = Idle /\ ir = Idle

SpecRankParams == RankParamsInit /\ [][RankParams]_vars

\* C27: of two ranks in 1..500 the larger never gets the steeper sigmoid:
\* r1 < r2 implies |k(r1)| >= |k(r2)|.
C27_SteepnessFlattens ==
    (lev_call.pc = "params" /\ lev_prev.pc = "params"
        /\ lev_prev.rank < lev_call.rank) =>
        Abs(lev_prev.out.k10) >= Abs(lev_call.out.k10)

(***************************************************************************)
(* VolumeProfile.calculate                                                 *)
(*                                                                         *)
(* A frame is its rows (close, volume) with the extremes of its high and   *)
(* low columns: the code reads those two columns only through max() and    *)
(* min().  Prices are integers; the three price outputs are kept as        *)
(* numerators over 2 * n_bins.                                             *)
(***************************************************************************)
MaxRows == 3

MaxPrice == 3

MaxVolume == 2

Prices == 1..MaxPrice

Volumes == 0..MaxVolume

Row == [close: Prices, volume: Volumes]

RowSeqs == UNION { [1..n -> Row] : n \in 1..MaxRows }

RECURSIVE SeqMax(_, _)
SeqMax(rows, i) ==
    IF i = 1 THEN rows[1].close ELSE Max2(rows[i].close, SeqMax(rows, i - 1))

RECURSIVE SeqMin(_, _)
SeqMin(rows, i) ==
    IF i = 1 THEN rows[1].close ELSE Min2(rows[i].close, SeqMin(rows, i - 1))

\* every frame with low <= close <= high on each row
Frames ==
    { [rows |-> rs, high |-> SeqMax(rs, Len(rs)) + hw, low |-> SeqMin(rs, Len(rs)) - lw] :
        rs \in RowSeqs, hw \in {0, 1}, lw \in {0, 1} }

\* n_bins of the constructor: 24 is what MarketAnalyzer passes
NBinsChoices == {4, 24}

\* the bin computation with the clip of line 49 left out
PriceBinOf_NoClip(close, price_low, price_range, n_bins) ==
    IF price_range = 0 THEN 0
    ELSE ((close - price_low) * n_bins) \div price_range

\* ((close - price_low) / bin_size).astype(int), then clip(0, n_bins - 1);
\* a zero price range is replaced by 1e-10, and then close = price_low
PriceBinOf(close, price_low, price_range, n_bins) ==
    IF price_range = 0 THEN 0
    ELSE Max2(0, Min2(n_bins - 1, ((close - price_low) * n_bins) \div price_range))

RECURSIVE SumVolume(_, _, _)
\* sum of the volume of the rows 1..i whose bin is in bins
SumVolume(rows, price_bin, bins) ==
    IF Len(rows) = 0 THEN 0
    ELSE LET n == Len(rows)
         IN  (IF price_bin[n] \in bins THEN rows[n].volume ELSE 0)
             + SumVolume(SubSeq(rows, 1, n - 1), SubSeq(price_bin, 1, n - 1), bins)

\* df.groupby('price_bin')['volume'].sum(): one entry per bin that has a row
GroupByBin(rows, price_bin) ==
    [b \in { price_bin[i] : i \in 1..Len(rows) } |-> SumVolume(rows, price_bin, {b})]

\* volume_profile.get(b, 0)
ProfileGet(volume_profile, b) ==
    IF b \in DOMAIN volume_profile THEN volume_profile[b] ELSE 0

RECURSIVE ProfileSum(_, _)
\* volume_profile.sum() over the bins of the set bs
ProfileSum(volume_profile, bs) ==
    IF bs = {} THEN 0
    ELSE LET b == CHOOSE x \in bs : TRUE
         IN  volume_profile[b] + ProfileSum(volume_profile, bs \ {b})

ProfileMax(volume_profile) ==
    CHOOSE m \in { volume_profile[b] : b \in DOMAIN volume_profile } :
        \A b \in DOMAIN volume_profile : volume_profile[b] <= m

\* volume_profile.idxmax(): the first (lowest) bin holding the maximum
IdxMax(volume_profile) ==
    CHOOSE b \in DOMAIN volume_profile :
        /\ volume_profile[b] = ProfileMax(volume_profile)
        /\ \A c \in DOMAIN volume_profile :
              volume_profile[c] = ProfileMax(volume_profile) => b <= c

SetMax(bs) == CHOOSE b \in bs : \A c \in bs : c <= b

SetMin(bs) == CHOOSE b \in bs : \A c \in bs : b <= c

VPInit ==
    \E f \in Frames, n \in NBinsChoices :
        vp = [pc |-> "start", n_bins |-> n, frame |-> f]

\* lines 35-52: price range, price_bin column, per-bin volume sums
VPBin ==
    /\ vp.pc = "start"
    /\ LET f           == vp.frame
           price_range == f.high - f.low
           price_bin   == [i \in 1..Len(f.rows) |->
                              PriceBinOf(f.rows[i].close, f.low, price_range, vp.n_bins)]
       IN  vp' = [pc |-> "binned", n_bins |-> vp.n_bins, frame |-> f,
                  price_range |-> price_range,
                  price_bin |-> price_bin,
                  volume_profile |-> GroupByBin(f.rows, price_bin)]
    /\ UNCHANGED <<lev_cfg, lev_call, lev_prev, an, dr, rsi, bb, px, sw, pl, gr, ir>>

\* lines 54-62: the point of control
VPPoc ==
    /\ vp.pc = "binned"
    /\ LET zero == ProfileMax(vp.volume_profile) = 0
           poc_bin == IF zero THEN vp.n_bins \div 2 ELSE IdxMax(vp.volume_profile)
           \* poc_price * 2 * n_bins
           poc_price == IF zero THEN (vp.frame.high + vp.frame.low) * vp.n_bins
                        ELSE vp.frame.low * 2 * vp.n_bins
                             + (2 * poc_bin + 1) * vp.price_range
       IN  vp' = [f \in DOMAIN vp \cup {"poc_bin", "poc_price", "total_volume"} |->
                    CASE f = "pc" -> "poc"
                      [] f = "poc_bin" -> poc_bin
                      [] f = "poc_price" -> poc_price
                      [] f = "total_volume" ->
                            ProfileSum(vp.volume_profile, DOMAIN vp.volume_profile)
                      [] OTHER -> vp[f]]
    /\ UNCHANGED <<lev_cfg, lev_call, lev_prev, an, dr, rsi, bb, px, sw, pl, gr, ir>>

VPWith(fields) ==
    [f \in DOMAIN vp \cup DOMAIN fields |->
        IF f \in DOMAIN fields THEN fields[f] ELSE vp[f]]

\* zero total volume without the early return of lines 66-70: the value
\* area of lines 98-102 around the POC bin alone
VPZeroVolume_NoFallback ==
    /\ vp.pc = "poc"
    /\ vp.total_volume = 0
    /\ vp' = VPWith([pc |-> "done", exit |-> "zero_volume",
                     va_high |-> vp.frame.low * 2 * vp.n_bins
                                 + 2 * (vp.poc_bin + 1) * vp.price_range,
                     va_low |-> vp.frame.low * 2 * vp.n_bins
                                 + 2 * vp.poc_bin * vp.price_range])
    /\ UNCHANGED <<lev_cfg, lev_call, lev_prev, an, dr, rsi, bb, px, sw, pl, gr, ir>>

\* lines 65-70: zero total volume returns the whole price range
VPZeroVolume ==
    /\ vp.pc = "poc"
    /\ vp.total_volume = 0
    /\ vp' = VPWith([pc |-> "done", exit |-> "zero_volume",
                     va_high |-> vp.frame.high * 2 * vp.n_bins,
                     va_low |-> vp.frame.low * 2 * vp.n_bins])
    /\ UNCHANGED <<lev_cfg, lev_call, lev_prev, an, dr, rsi, bb, px, sw, pl, gr, ir>>

\* lines 72-76: the value area starts as the POC bin alone
VPStartExpand ==
    /\ vp.pc = "poc"
    /\ vp.total_volume # 0
    /\ vp' = VPWith([pc |-> "expand",
                     volume_sum |-> ProfileGet(vp.volume_profile, vp.poc_bin),
                     value_area_bins |-> {vp.poc_bin},
                     above_bin |-> vp.poc_bin,
                     below_bin |-> vp.poc_bin,
                     iterations |-> 0])
    /\ UNCHANGED <<lev_cfg, lev_call, lev_prev, an, dr, rsi, bb, px, sw, pl, gr, ir>>

\* while volume_sum < 0.7 * total_volume
LoopOn == vp.pc = "expand" /\ vp.volume_sum * 10 < 7 * vp.total_volume

VolumeAbove == ProfileGet(vp.volume_profile, vp.above_bin + 1)

VolumeBelow == ProfileGet(vp.volume_profile, vp.below_bin - 1)

\* the guard of the first branch of the loop body (line 86)
TakeAbove == VolumeAbove > VolumeBelow /\ vp.above_bin + 1 < vp.n_bins

\* lines 86-89
VPExpandAbove ==
    /\ LoopOn
    /\ TakeAbove
    /\ vp' = VPWith([above_bin |-> vp.above_bin + 1,
                     value_area_bins |-> vp.value_area_bins \cup {vp.above_bin + 1},
                     volume_sum |-> vp.volume_sum + VolumeAbove,
                     iterations |-> vp.iterations + 1])
    /\ UNCHANGED <<lev_cfg, lev_call, lev_prev, an, dr, rsi, bb, px, sw, pl, gr, ir>>

\* lines 90-93 with a plain `else` in place of `elif below_candidate >= 0`
VPExpandBelow_Unchecked ==
    /\ LoopOn
    /\ ~TakeAbove
    /\ vp' = VPWith([below_bin |-> vp.below_bin - 1,
                     value_area_bins |-> vp.value_area_bins \cup {vp.below_bin - 1},
                     volume_sum |-> vp.volume_sum + VolumeBelow,
                     iterations |-> vp.iterations + 1])
    /\ UNCHANGED <<lev_cfg, lev_call, lev_prev, an, dr, rsi, bb, px, sw, pl, gr, ir>>

\* lines 90-93
VPExpandBelow ==
    /\ LoopOn
    /\ ~TakeAbove
    /\ vp.below_bin - 1 >= 0
    /\ vp' = VPWith([below_bin |-> vp.below_bin - 1,
                     value_area_bins |-> vp.value_area_bins \cup {vp.below_bin - 1},
                     volume_sum |-> vp.volume_sum + VolumeBelow,
                     iterations |-> vp.iterations + 1])
    /\ UNCHANGED <<lev_cfg, lev_call, lev_prev, an, dr, rsi, bb, px, sw, pl, gr, ir>>

\* lines 97-104, reached when the loop condition fails or by `break`
VPFinish(exit) ==
    LET va_high_bin == SetMax(vp.value_area_bins)
        va_low_bin  == SetMin(vp.value_area_bins)
    IN  vp' = VPWith([pc |-> "done", exit |-> exit,
                      va_high_bin |-> va_high_bin,
                      va_low_bin |-> va_low_bin,
                      va_high |-> vp.frame.low * 2 * vp.n_bins
                                  + 2 * (va_high_bin + 1) * vp.price_range,
                      va_low |-> vp.frame.low * 2 * vp.n_bins
                                  + 2 * va_low_bin * vp.price_range])

\* lines 94-95: neither side can be taken
VPBreak ==
    /\ LoopOn
    /\ ~TakeAbove
    /\ ~(vp.below_bin - 1 >= 0)
    /\ VPFinish("break")
    /\ UNCHANGED <<lev_cfg, lev_call, lev_prev, an, dr, rsi, bb, px, sw, pl, gr, ir>>

\* the loop condition is false: 70% of the volume is enclosed
VPLoopExit ==
    /\ vp.pc = "expand"
    /\ ~LoopOn
    /\ VPFinish("enclosed")
    /\ UNCHANGED <<lev_cfg, lev_call, lev_prev, an, dr, rsi, bb, px, sw, pl, gr, ir>>

VPNext ==
    \/ VPBin
    \/ VPPoc
    \/ VPZeroVolume
    \/ VPStartExpand
    \/ VPExpandAbove
    \/ VPExpandBelow
    \/ VPBreak
    \/ VPLoopExit

VolumeProfileInit ==
    /\ VPInit /\ lev_cfg = Idle /\ lev_call = NoCall /\ lev_prev = NoCall
    /\ an = Idle /\ dr = Idle /\ rsi = Idle /\ bb = Idle /\ px = Idle /\ sw = Idle /\ pl = Idle /\ gr = Idle /\ ir = Idle

SpecVolumeProfile == VolumeProfileInit /\ [][VPNext]_vars

RECURSIVE RangeVolume(_, _, _)
\* volume of the bins lo..hi of the profile
RangeVolume(volume_profile, lo, hi) ==
    IF lo > hi THEN 0
    ELSE ProfileGet(volume_profile, hi) + RangeVolume(volume_profile, lo, hi - 1)

RECURSIVE TotalInputVolume(_)
\* df['volume'].sum() of the input frame
TotalInputVolume(rows) ==
    IF Len(rows) = 0 THEN 0
    ELSE rows[Len(rows)].volume + TotalInputVolume(SubSeq(rows, 1, Len(rows) - 1))

\* C3: for positive total volume the bins va_low_bin..va_high_bin contain the
\* POC bin and hold at least 70% of the total volume.
C3_ValueAreaEncloses70 ==
    (vp.pc = "done" /\ vp.total_volume > 0) =>
        /\ vp.va_low_bin <= vp.poc_bin
        /\ vp.poc_bin <= vp.va_high_bin
        /\ 10 * RangeVolume(vp.volume_profile, vp.va_low_bin, vp.va_high_bin)
              >= 7 * vp.total_volume

\* C4: every row gets one bin index in 0..n_bins-1 and the per-bin sums over
\* those bins add up to the total input volume.
C4_MassConservation ==
    (vp.pc \notin {"idle", "start"}) =>
        /\ \A i \in 1..Len(vp.frame.rows) : vp.price_bin[i] \in 0..(vp.n_bins - 1)
        /\ RangeVolume(vp.volume_profile, 0, vp.n_bins - 1)
              = TotalInputVolume(vp.frame.rows)

\* a row with volume closes at the top of a non-empty price range
C4_Witness ==
    /\ vp.pc = "done"
    /\ vp.price_range > 0
    /\ \E i \in 1..Len(vp.frame.rows) :
          /\ vp.frame.rows[i].close = vp.frame.high
          /\ vp.frame.rows[i].volume > 0
          /\ vp.price_bin[i] = vp.n_bins - 1

C28_ExpansionBounded ==
    ("value_area_bins" \in DOMAIN vp) =>
        /\ vp.value_area_bins = vp.below_bin..vp.above_bin
        /\ vp.value_area_bins \subseteq 0..(vp.n_bins - 1)
        /\ Cardinality(vp.value_area_bins) = vp.iterations + 1
        /\ vp.iterations <= vp.n_bins - 1

\* the loop has walked from the top bin down to bin 0 and left with the
\* volume enclosed
C28_Witness ==
    /\ vp.pc = "done"
    /\ vp.exit = "enclosed"
    /\ vp.poc_bin = vp.n_bins - 1
    /\ vp.iterations = vp.n_bins - 1

(***************************************************************************)
(* MarketAnalyzer.analyze_spot / analyze_swap                              *)
(*                                                                         *)
(* A frame of a timeframe is summarised by what the analyzer reads from    *)
(* it: its row count and, from its last row after _calculate_indicators,   *)
(* the close, the ATR, the outcome of each comparison that scores the      *)
(* frame, and its trend strength.  Confidences and trend strengths are in  *)
(* hundredths, weights in thousandths, prices in units of 1/PS.            *)
(***************************************************************************)
PS == 1000

Timeframes == {"6h", "1d"}

\* self.timeframe_categories
timeframe_categories == [medium |-> {"6h"}, long |-> {"1d"}]

\* base_category_weights of _calculate_dynamic_weights
base_category_weights ==
    [ultra_short |-> 100, short |-> 200, medium |-> 400, long |-> 300]

RECURSIVE SumOver(_, _)
SumOver(f, ks) ==
    IF ks = {} THEN 0
    ELSE LET k == CHOOSE x \in ks : TRUE IN f[k] + SumOver(f, ks \ {k})

SeqSet(q) == { q[i] : i \in 1..Len(q) }

_calculate_dynamic_weights(available_timeframes) ==
    LET cats == DOMAIN timeframe_categories
        category_counts ==
            [c \in cats |-> Cardinality(timeframe_categories[c]
                                        \cap SeqSet(available_timeframes))]
        empty_categories     == { c \in cats : category_counts[c] = 0 }
        remaining_categories == { c \in cats : category_counts[c] > 0 }
        extra_weight == SumOver(base_category_weights, empty_categories)
        adjusted ==
            [c \in cats |->
                IF empty_categories # {} /\ c \in remaining_categories
                THEN base_category_weights[c]
                     + extra_weight \div Cardinality(remaining_categories)
                ELSE base_category_weights[c]]
    IN  [tf \in SeqSet(available_timeframes) |->
            LET c == CHOOSE x \in cats : tf \in timeframe_categories[x]
            IN  adjusted[c] \div category_counts[c]]

\* _calculate_confidence_threshold: the lookup of the category 'ultra_short',
\* which self.timeframe_categories does not hold, raises for every non-empty
\* list; no analysis calls this method
base_threshold == 70

_calculate_confidence_threshold(available_timeframes) ==
    IF available_timeframes # <<>> THEN "KeyError" ELSE base_threshold

\* _select_price_timeframe: 6h before 1d
_select_price_timeframe(available_timeframes) ==
    IF "6h" \in SeqSet(available_timeframes) THEN "6h"
    ELSE IF "1d" \in SeqSet(available_timeframes) THEN "1d"
    ELSE available_timeframes[1]

\* _get_timeframe_multiplier, times 1000
_get_timeframe_multiplier(timeframe) ==
    IF timeframe = "6h" THEN 18974 ELSE IF timeframe = "1d" THEN 24495 ELSE 1000

\* _calculate_weighted_atr, in price units of 1/PS
_calculate_weighted_atr(order, frames, weights) ==
    LET tfs == SeqSet(order) \cap DOMAIN weights
        weighted_atr ==
            SumOver([tf \in tfs |->
                        frames[tf].atr * weights[tf] * _get_timeframe_multiplier(tf)],
                    tfs)
        total_weight == SumOver(weights, tfs)
    IN  IF total_weight > 0 THEN weighted_atr \div total_weight ELSE 0

MediumSignals == {"ema_up", "macd_up", "rsi_mid", "stoch_up", "bb_narrow"}

\* _analyze_medium_term with the Bollinger contribution of line 478 doubled
_analyze_medium_term_WideBand(frame) ==
    (IF "ema_up" \in frame.signals THEN 20 ELSE 0)
    + (IF "macd_up" \in frame.signals THEN 20 ELSE 0)
    + (IF "rsi_mid" \in frame.signals THEN 15 ELSE 0)
    + (IF "stoch_up" \in frame.signals THEN 15 ELSE 0)
    + (IF "bb_narrow" \in frame.signals THEN 60 ELSE 0)

\* _analyze_medium_term
_analyze_medium_term(frame) ==
    (IF "ema_up" \in frame.signals THEN 20 ELSE 0)
    + (IF "macd_up" \in frame.signals THEN 20 ELSE 0)
    + (IF "rsi_mid" \in frame.signals THEN 15 ELSE 0)
    + (IF "stoch_up" \in frame.signals THEN 15 ELSE 0)
    + (IF "bb_narrow" \in frame.signals THEN 30 ELSE 0)

\* what _calculate_trend_strength reads from the last rows: the outcome of
\* each of its comparisons, the number of rising closes among the last ten
\* and the ratio of the last volume to its 20-row mean
MaxVolumeRatio == 3

TrendInputs ==
    [ema_up: BOOLEAN, ema_20_rising: BOOLEAN, ema_20_steeper: BOOLEAN,
     macd_positive: BOOLEAN, macd_over_signal: BOOLEAN, macd_rising: BOOLEAN,
     bb_position: {"lower", "upper", "top"},
     up_candles: {0, 9},
     breakout: BOOLEAN, volume_ratio: 0..MaxVolumeRatio]

\* _calculate_trend_strength, in hundredths
_calculate_trend_strength(t) ==
    LET ema  == IF ~t.ema_up THEN 0
                ELSE 10 + (IF ~t.ema_20_rising THEN 0
                           ELSE 5 + (IF t.ema_20_steeper THEN 5 ELSE 0))
        macd == IF ~t.macd_positive THEN 0
                ELSE 10 + (IF ~t.macd_over_signal THEN 0
                           ELSE 5 + (IF t.macd_rising THEN 5 ELSE 0))
        position == IF t.bb_position = "lower" THEN 0
                    ELSE IF t.bb_position = "upper" THEN 10 ELSE 20
        trend_consistency == (t.up_candles * 20) \div 9
        breakthrough == IF t.breakout THEN Min2(20, t.volume_ratio * 10) ELSE 0
    IN  Min2(100, ema + macd + position + trend_consistency + breakthrough)

\* _calculate_volatility: the constant 0.5
_calculate_volatility == 50

\* _analyze_long_term
_analyze_long_term(frame) ==
    frame.trend \div 2
    + (IF "above_poc" \in frame.signals THEN 30 ELSE 0)
    + (IF _calculate_volatility < 80 THEN 20 ELSE 0)

\* _analyze_single_timeframe: df.iloc[-2] needs two rows, the df.iloc[-5] of
\* _calculate_trend_strength five; TimeframeAnalysis(confidence=...) names a
\* field the dataclass does not have, so a positive confidence raises
_analyze_single_timeframe(frame, timeframe) ==
    IF frame.rows < 2 THEN [analysis |-> "IndexError"]
    ELSE IF timeframe # "6h" /\ frame.rows < 5 THEN [analysis |-> "IndexError"]
    ELSE LET confidence == IF timeframe = "6h" THEN _analyze_medium_term(frame)
                           ELSE _analyze_long_term(frame)
         IN  [analysis |-> IF confidence > 0 THEN "TypeError" ELSE "None",
              confidence |-> confidence]

\* _calculate_market_status, the three entries analyze_swap reads;
\* rolling(20).mean() is undefined on fewer than 20 rows
_calculate_market_status(order, frames, weights) ==
    LET tfs == SeqSet(order) \cap DOMAIN weights
        total_weight == SumOver(weights, tfs)
    IN  [trend_strength |->
            SumOver([tf \in tfs |-> frames[tf].trend * weights[tf]], tfs)
                \div total_weight,
         volatility |->
            SumOver([tf \in tfs |->
                        ((frames[tf].atr * S) \div frames[tf].close) * weights[tf]], tfs)
                \div total_weight,
         volume_strength |->
            IF \E tf \in tfs : frames[tf].rows < 20 THEN "NaN" ELSE S]

MaxAtr == 2

LatestClose == 50

RowCounts == {1, 4, 10, 30}

\* the trend strengths of the frames: the weakest and the strongest that
\* _calculate_trend_strength returns
TrendRange == { _calculate_trend_strength(t) : t \in TrendInputs }

Trends == {SetMin(TrendRange), SetMax(TrendRange)}

\* the comparisons that can hold on a frame of this many rows: a one-row
\* frame has equal EMAs and a zero MACD, and RSI, Stochastic and the
\* 20-row mean of the bandwidth are undefined on the short frames
PossibleSignals(timeframe, rows) ==
    IF timeframe # "6h" THEN {"above_poc"}
    ELSE IF rows < 2 THEN {}
    ELSE IF rows < 20 THEN {"ema_up", "macd_up"}
    ELSE MediumSignals

\* a zero ATR means every true range is zero: the series is flat, no
\* comparison holds and the trend strength is zero
FrameSummaries(timeframe) ==
    { f \in [rows: RowCounts, close: {LatestClose}, atr: 0..MaxAtr,
             signals: SUBSET MediumSignals \cup SUBSET {"above_poc"}, trend: Trends] :
        /\ f.signals \subseteq PossibleSignals(timeframe, f.rows)
        /\ f.atr = 0 => (f.signals = {} /\ f.trend = 0)
        /\ f.rows < 5 => f.trend = 0 }

TimeframeOrders == {<<>>, <<"6h">>, <<"1d">>, <<"6h", "1d">>, <<"1d", "6h">>}

AnInit ==
    \E mode \in {"spot", "swap"}, order \in TimeframeOrders :
        \E frames \in [SeqSet(order) -> FrameSummaries("6h") \cup FrameSummaries("1d")] :
            /\ \A tf \in SeqSet(order) : frames[tf] \in FrameSummaries(tf)
            /\ an = [pc |-> "Initialized", mode |-> mode, order |-> order,
                     frames |-> frames]

AnWith(fields) ==
    [f \in DOMAIN an \cup DOMAIN fields |->
        IF f \in DOMAIN fields THEN fields[f] ELSE an[f]]

\* lines 155-157
AnNoTimeframes ==
    /\ an.pc = "Initialized"
    /\ an.order = <<>>
    /\ an' = AnWith([pc |-> "Rejected", error |-> "ValueError"])
    /\ UNCHANGED <<lev_cfg, lev_call, lev_prev, vp, dr, rsi, bb, px, sw, pl, gr, ir>>

\* lines 159-165
AnWeights ==
    /\ an.pc = "Initialized"
    /\ an.order # <<>>
    /\ an' = AnWith([pc |-> "Scoring",
                     dynamic_weights |-> _calculate_dynamic_weights(an.order),
                     idx |-> 1,
                     total_confidence |-> 0,
                     timeframe_analysis |-> {}])
    /\ UNCHANGED <<lev_cfg, lev_call, lev_prev, vp, dr, rsi, bb, px, sw, pl, gr, ir>>

\* lines 168-176, one iteration whose analysis is None
AnTimeframeNone ==
    /\ an.pc = "Scoring"
    /\ an.idx <= Len(an.order)
    /\ LET r == _analyze_single_timeframe(an.frames[an.order[an.idx]],
                                          an.order[an.idx])
       IN  /\ r.analysis = "None"
           /\ an' = AnWith([idx |-> an.idx + 1, analysed |-> r])
    /\ UNCHANGED <<lev_cfg, lev_call, lev_prev, vp, dr, rsi, bb, px, sw, pl, gr, ir>>

\* lines 168-170, one iteration in which _analyze_single_timeframe raises
AnTimeframeRaises ==
    /\ an.pc = "Scoring"
    /\ an.idx <= Len(an.order)
    /\ LET r == _analyze_single_timeframe(an.frames[an.order[an.idx]],
                                          an.order[an.idx])
       IN  /\ r.analysis # "None"
           /\ an' = AnWith([pc |-> "Rejected", error |-> r.analysis, analysed |-> r])
    /\ UNCHANGED <<lev_cfg, lev_call, lev_prev, vp, dr, rsi, bb, px, sw, pl, gr, ir>>

\* lines 178-181: latest price and weighted ATR; the three prices of the
\* signal (lines 190-192) are functions of these two
AnEntry ==
    /\ an.pc = "Scoring"
    /\ an.idx > Len(an.order)
    /\ LET price_timeframe == _select_price_timeframe(an.order)
           latest_price    == an.frames[price_timeframe].close * PS
           atr == _calculate_weighted_atr(an.order, an.frames, an.dynamic_weights)
       IN  an' = AnWith([pc |-> "EntryComputed",
                         entry_price |-> latest_price,
                         stop_loss   |-> latest_price - atr * 2,
                         take_profit |-> latest_price + atr * 3])
    /\ UNCHANGED <<lev_cfg, lev_call, lev_prev, vp, dr, rsi, bb, px, sw, pl, gr, ir>>

\* line 184 on a frame of fewer than five rows: df.iloc[-5] raises
AnMarketStatusRaises ==
    /\ an.pc = "EntryComputed"
    /\ \E tf \in SeqSet(an.order) : an.frames[tf].rows < 5
    /\ an' = AnWith([pc |-> "Rejected", error |-> "IndexError"])
    /\ UNCHANGED <<lev_cfg, lev_call, lev_prev, vp, dr, rsi, bb, px, sw, pl, gr, ir>>

\* TradeSignal.leverage_info of a signal built without one (line 50)
NoLeverage == [outcome |-> "None"]

TradeSignal(signal_type) ==
    [symbol |-> "symbol", signal_type |-> signal_type,
     confidence |-> an.total_confidence,
     entry_price |-> an.entry_price, stop_loss |-> an.stop_loss,
     take_profit |-> an.take_profit,
     timeframe_analysis |-> an.timeframe_analysis,
     leverage_info |-> NoLeverage,
     market_status |->
        _calculate_market_status(an.order, an.frames, an.dynamic_weights)]

\* analyze_spot, lines 184-196: the TradeSignal is returned
AnReturnSpot ==
    /\ an.pc = "EntryComputed"
    /\ \A tf \in SeqSet(an.order) : an.frames[tf].rows >= 5
    /\ an.mode = "spot"
    /\ an' = AnWith([pc |-> "Finalized", signal |-> TradeSignal("spot_buy")])
    /\ UNCHANGED <<lev_cfg, lev_call, lev_prev, vp, dr, rsi, bb, px, sw, pl, gr, ir>>

\* analyze_swap, line 272: analyze_spot has returned its TradeSignal
AnSwapSpotReturns ==
    /\ an.pc = "EntryComputed"
    /\ \A tf \in SeqSet(an.order) : an.frames[tf].rows >= 5
    /\ an.mode = "swap"
    /\ an' = AnWith([pc |-> "SpotReturned", signal |-> TradeSignal("spot_buy")])
    /\ UNCHANGED <<lev_cfg, lev_call, lev_prev, vp, dr, rsi, bb, px, sw, pl, gr, ir>>

\* analyze_swap, lines 283-286, as they would run had the call of line 276
\* returned: the signal is relabelled and the leverage attached
AnSwapLeverage_Attaches ==
    /\ an.pc = "SpotReturned"
    /\ an' = AnWith([pc |-> "Finalized",
                     signal |-> [an.signal EXCEPT
                                    !.signal_type = "swap_long",
                                    !.leverage_info = [outcome |-> "returned"]]])
    /\ UNCHANGED <<lev_cfg, lev_call, lev_prev, vp, dr, rsi, bb, px, sw, pl, gr, ir>>

\* analyze_swap, lines 275-280: the call of leverage_calculator.calculate
\* leaves out the required market_cap_rank and raises before lines 283-286
AnSwapLeverage ==
    /\ an.pc = "SpotReturned"
    /\ an' = AnWith([pc |-> "Rejected", error |-> "TypeError"])
    /\ UNCHANGED <<lev_cfg, lev_call, lev_prev, vp, dr, rsi, bb, px, sw, pl, gr, ir>>

AnNext ==
    \/ AnNoTimeframes
    \/ AnWeights
    \/ AnTimeframeNone
    \/ AnTimeframeRaises
    \/ AnEntry
    \/ AnMarketStatusRaises
    \/ AnReturnSpot
    \/ AnSwapSpotReturns
    \/ AnSwapLeverage

AnalyzerInit ==
    /\ AnInit /\ lev_cfg = Idle /\ lev_call = NoCall /\ lev_prev = NoCall
    /\ vp = Idle /\ dr = Idle /\ rsi = Idle /\ bb = Idle /\ px = Idle /\ sw = Idle /\ pl = Idle /\ gr = Idle /\ ir = Idle

SpecAnalyzer == AnalyzerInit /\ [][AnNext]_vars

\* rows the analyze_spot driver demands of a frame before it analyses it
MinRows == 30

\* C5: every returned TradeSignal has take_profit > entry_price > stop_loss,
\* so that (take_profit - entry_price) / (entry_price - stop_loss) is finite
\* and positive.
C5_TakeAboveEntryAboveStop ==
    an.pc = "Finalized" =>
        /\ an.signal.take_profit > an.signal.entry_price
        /\ an.signal.entry_price > an.signal.stop_loss

\* C6: no TradeSignal is returned whose entry price, stop-loss or take-profit
\* is not strictly positive or whose entry - stop_loss does not exceed the
\* epsilon (below the price unit of the model).
C6_GuardedPrices ==
    an.pc = "Finalized" =>
        /\ an.signal.entry_price > 0
        /\ an.signal.stop_loss > 0
        /\ an.signal.take_profit > 0
        /\ an.signal.entry_price - an.signal.stop_loss > 0

\* C7: the dynamic weights hold one strictly positive weight per supplied
\* timeframe and sum to 1.
C7_WeightsSumToOne ==
    ("dynamic_weights" \in DOMAIN an) =>
        /\ DOMAIN an.dynamic_weights = SeqSet(an.order)
        /\ \A tf \in DOMAIN an.dynamic_weights : an.dynamic_weights[tf] > 0
        /\ SumOver(an.dynamic_weights, DOMAIN an.dynamic_weights) = 1000

\* C8: a signal is emitted only with a composite confidence at or above the
\* threshold: the base threshold for two or more timeframes, the base
\* threshold plus 0.1 for a single one.
C8_ConfidenceAtLeastThreshold ==
    an.pc = "Finalized" =>
        an.signal.confidence >=
            (IF Len(an.order) = 1 THEN base_threshold + 10 ELSE base_threshold)

\* C9: an analysis fed a frame of fewer than 30 rows ends rejected as
\* InsufficientData.
C9_ShortFrameRejected ==
    (/\ an.pc \in {"Finalized", "Rejected"}
     /\ \E tf \in SeqSet(an.order) : an.frames[tf].rows < MinRows) =>
        (an.pc = "Rejected" /\ an.error = "InsufficientData")

\* C15: whenever the spot analysis inside analyze_swap has succeeded,
\* analyze_swap ends by returning the TradeSignal with the calculator's
\* output attached as leverage_info; it neither fails nor returns a signal
\* without leverage.
C15_SwapAttachesLeverage ==
    (an.mode = "swap" /\ "signal" \in DOMAIN an /\ an.pc # "SpotReturned") =>
        /\ an.pc = "Finalized"
        /\ an.signal.leverage_info.outcome = "returned"

C21_ConfidenceThreshold ==
    ("analysed" \in DOMAIN an /\ "confidence" \in DOMAIN an.analysed) =>
        IF an.analysed.confidence < 20
        THEN an.analysed.analysis = "None"
        ELSE an.analysed.analysis = "TimeframeAnalysis"

\* C22: the confidence summed for a timeframe lies in [0, 1], and so does
\* the composite confidence of every TradeSignal constructed (in hundredths
\* times the weights' thousandths).
C22_ConfidenceInUnitInterval ==
    /\ ("analysed" \in DOMAIN an /\ "confidence" \in DOMAIN an.analysed) =>
            an.analysed.confidence \in 0..100
    /\ ("signal" \in DOMAIN an) => an.signal.confidence \in 0..(100 * 1000)

\* a daily frame of full trend strength above its point of control, after
\* a 6h frame that scored nothing: every contribution counts
C22_Witness ==
    /\ "analysed" \in DOMAIN an
    /\ "confidence" \in DOMAIN an.analysed
    /\ an.order = <<"6h", "1d">>
    /\ an.idx = 2
    /\ an.frames["1d"].trend = 100
    /\ an.analysed.confidence = 100

(***************************************************************************)
(* The ranking drivers analyze_spot(), analyze_swap() and analyze_grid()   *)
(*                                                                         *)
(* The filtered markets are 1..n.  Fetching, validating and analysing a    *)
(* market each either succeed or raise; the sort key of a market's result  *)
(* (confidence * expected_return, or composite_score) is keys[market].     *)
(***************************************************************************)
MaxMarkets == 12

TopN == 10

Drivers == {"spot", "swap", "grid"}

\* the sort keys of the markets: all equal, or three values in two orders
KeyPatterns(n) == { [m \in 1..n |-> 1 + ((m * a) % 3)] : a \in 0..2 }

\* the place of the stable descending sort for a result x: behind every
\* element whose key is at least x.key
RECURSIVE InsertDesc(_, _)
InsertDesc(x, q) ==
    IF q = <<>> THEN <<x>>
    ELSE IF q[1].key >= x.key THEN <<q[1]>> \o InsertDesc(x, Tail(q))
    ELSE <<x>> \o q

RECURSIVE SortedDesc(_)
\* sorted(results, key=..., reverse=True)
SortedDesc(q) ==
    IF q = <<>> THEN <<>>
    ELSE InsertDesc(q[Len(q)], SortedDesc(SubSeq(q, 1, Len(q) - 1)))

\* sorted_results[:10]
TopSlice(q) == SubSeq(q, 1, Min2(TopN, Len(q)))

DrInit ==
    \E kind \in Drivers, n \in 0..MaxMarkets :
        \E keys \in KeyPatterns(n) :
            dr = [pc |-> "fetch", kind |-> kind, n |-> n, keys |-> keys, i |-> 1,
                  results |-> <<>>, visited |-> {}, succeeded |-> {},
                  caught |-> "none"]

\* `break` in the place of `continue`: the loop ends at the failed market
Caught_Break(d, stage) == [d EXCEPT !.i = d.n + 1, !.pc = "fetch", !.caught = stage]

\* `except Exception as e: ... continue`: the exception of the stage is
\* caught and the loop goes on with the next market
Caught(d, stage) == [d EXCEPT !.i = d.i + 1, !.pc = "fetch", !.caught = stage]

\* the first try block fetched the OHLCV rows and built the frames
DrFetchOk ==
    /\ dr.pc = "fetch"
    /\ dr.i <= dr.n
    /\ dr' = [dr EXCEPT !.pc = IF dr.kind = "grid" THEN "analyze" ELSE "validate",
                        !.visited = dr.visited \cup {dr.i}]
    /\ UNCHANGED <<lev_cfg, lev_call, lev_prev, vp, an, rsi, bb, px, sw, pl, gr, ir>>

\* fetch_ohlcv or the DataFrame constructor raised: except, continue
DrFetchFails ==
    /\ dr.pc = "fetch"
    /\ dr.i <= dr.n
    /\ dr' = Caught([dr EXCEPT !.visited = dr.visited \cup {dr.i}], "fetch")
    /\ UNCHANGED <<lev_cfg, lev_call, lev_prev, vp, an, rsi, bb, px, sw, pl, gr, ir>>

\* analyze_spot / analyze_swap: the checks of the frames passed
DrValidateOk ==
    /\ dr.pc = "validate"
    /\ dr' = [dr EXCEPT !.pc = "analyze"]
    /\ UNCHANGED <<lev_cfg, lev_call, lev_prev, vp, an, rsi, bb, px, sw, pl, gr, ir>>

\* a check raised ValueError (missing values, zero volume, too few rows)
DrValidateFails ==
    /\ dr.pc = "validate"
    /\ dr' = Caught(dr, "validate")
    /\ UNCHANGED <<lev_cfg, lev_call, lev_prev, vp, an, rsi, bb, px, sw, pl, gr, ir>>

\* the second try block: the analysis returned and its result is appended
DrAnalyzeOk ==
    /\ dr.pc = "analyze"
    /\ dr' = [dr EXCEPT
                 !.results = Append(dr.results, [market |-> dr.i, key |-> dr.keys[dr.i]]),
                 !.succeeded = dr.succeeded \cup {dr.i},
                 !.i = dr.i + 1,
                 !.pc = "fetch"]
    /\ UNCHANGED <<lev_cfg, lev_call, lev_prev, vp, an, rsi, bb, px, sw, pl, gr, ir>>

\* the analysis raised: except, print, continue
DrAnalyzeFails ==
    /\ dr.pc = "analyze"
    /\ dr' = Caught(dr, "analyze")
    /\ UNCHANGED <<lev_cfg, lev_call, lev_prev, vp, an, rsi, bb, px, sw, pl, gr, ir>>

\* after the loop: sort by key, descending, and return the first ten
DrSortAndReturn ==
    /\ dr.pc = "fetch"
    /\ dr.i > dr.n
    /\ dr' = [f \in DOMAIN dr \cup {"returned"} |->
                 IF f = "pc" THEN "done"
                 ELSE IF f = "returned" THEN TopSlice(SortedDesc(dr.results))
                 ELSE dr[f]]
    /\ UNCHANGED <<lev_cfg, lev_call, lev_prev, vp, an, rsi, bb, px, sw, pl, gr, ir>>

DrNext ==
    \/ DrFetchOk
    \/ DrFetchFails
    \/ DrValidateOk
    \/ DrValidateFails
    \/ DrAnalyzeOk
    \/ DrAnalyzeFails
    \/ DrSortAndReturn

DriverInit ==
    /\ DrInit /\ lev_cfg = Idle /\ lev_call = NoCall /\ lev_prev = NoCall
    /\ vp = Idle /\ an = Idle /\ rsi = Idle /\ bb = Idle /\ px = Idle /\ sw = Idle /\ pl = Idle /\ gr = Idle /\ ir = Idle

SpecDriver == DriverInit /\ [][DrNext]_vars

ReturnedMarkets == { dr.returned[j].market : j \in 1..Len(dr.returned) }

NaN == [nan |-> TRUE, num |-> 0, den |-> 1]

RECURSIVE GCD(_, _)
GCD(a, b) == IF b = 0 THEN a ELSE GCD(b, a % b)

Rat(n, d) ==
    LET g == GCD(Abs(n), Abs(d))
        k == IF g = 0 THEN 1 ELSE IF d < 0 THEN -g ELSE g
    IN  [nan |-> FALSE, num |-> n \div k, den |-> d \div k]

IsZero(v) == ~v.nan /\ v.den # 0 /\ v.num = 0

Neg(v) == IF v.nan THEN v ELSE [v EXCEPT !.num = -v.num]

\* a / b for cells with non-zero b
RatDiv(a, b) ==
    LET g1 == GCD(Abs(a.num), Abs(b.num))
        g2 == GCD(a.den, b.den)
        n1 == IF g1 = 0 THEN 1 ELSE g1
        n2 == IF g2 = 0 THEN 1 ELSE g2
    IN  Rat((a.num \div n1) * (b.den \div n2), (a.den \div n2) * (b.num \div n1))

RECURSIVE IntPow(_, _)
IntPow(b, e) == IF e = 0 THEN 1 ELSE b * IntPow(b, e - 1)

\* Series.diff(): the first row has no predecessor
diff(x) ==
    [t \in 1..Len(x) |-> IF t = 1 THEN NaN ELSE Rat(x[t] - x[t - 1], 1)]

\* weight of row j in the adjusted exponential mean at row t, times
\* (span + 1)^(t - 1): ((span - 1) / (span + 1))^(t - j)
EwmWeight(span, t, j) == IntPow(span - 1, t - j) * IntPow(span + 1, j - 1)

RECURSIVE EwmNum(_, _, _, _)
EwmNum(x, span, t, j) ==
    IF j = 0 THEN 0
    ELSE EwmWeight(span, t, j) * x[j].num + EwmNum(x, span, t, j - 1)

RECURSIVE EwmDen(_, _, _)
EwmDen(span, t, j) ==
    IF j = 0 THEN 0 ELSE EwmWeight(span, t, j) + EwmDen(span, t, j - 1)

\* Series.ewm(span, min_periods).mean() with adjust=True, of a column of
\* integers without NaN
ewm_mean(x, span, min_periods) ==
    [t \in 1..Len(x) |->
        IF t < min_periods THEN NaN
        ELSE Rat(EwmNum(x, span, t, t), EwmDen(span, t, t))]

(***************************************************************************)
(* RSI.calculate (services/indicators/rsi.py)                              *)
(***************************************************************************)
MaxLen == 4
MaxClose == 4
MaxPeriod == 3

Closes == 1..MaxClose

CloseSeries == UNION { [1..n -> Closes] : n \in 1..MaxLen }

Periods == 1..MaxPeriod

\* line 25: delta.where(delta > 0, 0)
gain_OfLosses(delta) ==
    [t \in 1..Len(delta) |->
        IF ~delta[t].nan /\ delta[t].num < 0 THEN delta[t] ELSE Rat(0, 1)]

gain(delta) ==
    [t \in 1..Len(delta) |->
        IF ~delta[t].nan /\ delta[t].num > 0 THEN delta[t] ELSE Rat(0, 1)]

\* line 26: -delta.where(delta < 0, 0)
loss_Unnegated(delta) ==
    [t \in 1..Len(delta) |->
        IF ~delta[t].nan /\ delta[t].num < 0 THEN delta[t] ELSE Rat(0, 1)]

loss(delta) ==
    [t \in 1..Len(delta) |->
        Neg(IF ~delta[t].nan /\ delta[t].num < 0 THEN delta[t] ELSE Rat(0, 1))]

\* line 33: avg_gain / avg_loss.replace(0, np.inf)
RelativeStrength(avg_gain, avg_loss) ==
    [t \in 1..Len(avg_gain) |->
        IF avg_gain[t].nan \/ avg_loss[t].nan THEN NaN
        ELSE IF IsZero(avg_loss[t]) THEN Rat(0, 1)
        ELSE RatDiv(avg_gain[t], avg_loss[t])]

\* line 34: 100 - (100 / (1 + rs))
RsiOf(rs) ==
    [t \in 1..Len(rs) |->
        IF rs[t].nan THEN NaN
        ELSE IF rs[t].den + rs[t].num = 0 THEN Rat(-1, 0)
        ELSE Rat(100 * rs[t].num, rs[t].den + rs[t].num)]

\* line 37: result_df.loc[avg_gain == 0, 'rsi'] = 0
EdgeGain(col, avg_gain) ==
    [t \in 1..Len(col) |-> IF IsZero(avg_gain[t]) THEN Rat(0, 1) ELSE col[t]]

\* line 38: result_df.loc[avg_loss == 0, 'rsi'] = 100
EdgeLoss_Skipped(col, avg_loss) == col

EdgeLoss(col, avg_loss) ==
    [t \in 1..Len(col) |-> IF IsZero(avg_loss[t]) THEN Rat(100, 1) ELSE col[t]]

RsiInit ==
    \E close \in CloseSeries, period \in Periods :
        rsi = [pc |-> "start", period |-> period, close |-> close]

RsiWith(fields) ==
    [k \in DOMAIN rsi \cup DOMAIN fields |->
        IF k \in DOMAIN fields THEN fields[k] ELSE rsi[k]]

\* line 22
RsiDelta ==
    /\ rsi.pc = "start"
    /\ rsi' = RsiWith([pc |-> "delta", delta |-> diff(rsi.close)])
    /\ UNCHANGED <<lev_cfg, lev_call, lev_prev, vp, an, dr, bb, px, sw, pl, gr, ir>>

\* lines 25-26
RsiGainLoss ==
    /\ rsi.pc = "delta"
    /\ rsi' = RsiWith([pc |-> "gain_loss", gain |-> gain(rsi.delta),
                       loss |-> loss(rsi.delta)])
    /\ UNCHANGED <<lev_cfg, lev_call, lev_prev, vp, an, dr, bb, px, sw, pl, gr, ir>>

\* lines 29-30
RsiAverage ==
    /\ rsi.pc = "gain_loss"
    /\ rsi' = RsiWith([pc |-> "averaged",
                       avg_gain |-> ewm_mean(rsi.gain, rsi.period, rsi.period),
                       avg_loss |-> ewm_mean(rsi.loss, rsi.period, rsi.period)])
    /\ UNCHANGED <<lev_cfg, lev_call, lev_prev, vp, an, dr, bb, px, sw, pl, gr, ir>>

\* lines 33-34
RsiColumn ==
    /\ rsi.pc = "averaged"
    /\ rsi' = RsiWith([pc |-> "column",
                       rsi |-> RsiOf(RelativeStrength(rsi.avg_gain, rsi.avg_loss))])
    /\ UNCHANGED <<lev_cfg, lev_call, lev_prev, vp, an, dr, bb, px, sw, pl, gr, ir>>

\* line 37
RsiEdgeGain ==
    /\ rsi.pc = "column"
    /\ rsi' = RsiWith([pc |-> "edge_gain", rsi |-> EdgeGain(rsi.rsi, rsi.avg_gain)])
    /\ UNCHANGED <<lev_cfg, lev_call, lev_prev, vp, an, dr, bb, px, sw, pl, gr, ir>>

\* lines 38-40
RsiEdgeLoss ==
    /\ rsi.pc = "edge_gain"
    /\ rsi' = RsiWith([pc |-> "done", rsi |-> EdgeLoss(rsi.rsi, rsi.avg_loss)])
    /\ UNCHANGED <<lev_cfg, lev_call, lev_prev, vp, an, dr, bb, px, sw, pl, gr, ir>>

RsiNext ==
    \/ RsiDelta \/ RsiGainLoss \/ RsiAverage
    \/ RsiColumn \/ RsiEdgeGain \/ RsiEdgeLoss

RSIInit ==
    /\ RsiInit /\ lev_cfg = Idle /\ lev_call = NoCall /\ lev_prev = NoCall
    /\ vp = Idle /\ an = Idle /\ dr = Idle /\ bb = Idle /\ px = Idle /\ sw = Idle /\ pl = Idle /\ gr = Idle /\ ir = Idle

SpecRSI == RSIInit /\ [][RsiNext]_vars

Rows(x) == 1..Len(x)

\* C11: every defined (non-NaN) value of the returned rsi column lies in
\* [0, 100].
C11_RsiBounded ==
    rsi.pc = "done" =>
        \A t \in Rows(rsi.rsi) :
            ~rsi.rsi[t].nan =>
                /\ rsi.rsi[t].den > 0
                /\ 0 <= rsi.rsi[t].num
                /\ rsi.rsi[t].num <= 100 * rsi.rsi[t].den

\* a returned column with a value strictly between 0 and 100
C11_Witness ==
    /\ rsi.pc = "done"
    /\ \E t \in Rows(rsi.rsi) :
        /\ ~rsi.rsi[t].nan
        /\ 0 < rsi.rsi[t].num
        /\ rsi.rsi[t].num < 100 * rsi.rsi[t].den

StrictlyIncreasing(x) == \A t \in 2..Len(x) : x[t - 1] < x[t]

StrictlyDecreasing(x) == \A t \in 2..Len(x) : x[t - 1] > x[t]

\* C12: on a strictly increasing close series the returned rsi is 100 on
\* every row from index period-1 onward (row number period counting from
\* one), and on a strictly decreasing close series it is 0 on every such row.
C12_MonotoneSeries ==
    rsi.pc = "done" =>
        /\ StrictlyIncreasing(rsi.close) =>
            \A t \in Rows(rsi.rsi) : t >= rsi.period => rsi.rsi[t] = Rat(100, 1)
        /\ StrictlyDecreasing(rsi.close) =>
            \A t \in Rows(rsi.rsi) : t >= rsi.period => rsi.rsi[t] = Rat(0, 1)

\* C12 as amended: as above, but on a strictly decreasing series the first
\* row, which has no price change, is excepted (it is 100 when period = 1).
C12_MonotoneSeriesPastFirstRow ==
    rsi.pc = "done" =>
        /\ StrictlyIncreasing(rsi.close) =>
            \A t \in Rows(rsi.rsi) : t >= rsi.period => rsi.rsi[t] = Rat(100, 1)
        /\ StrictlyDecreasing(rsi.close) =>
            \A t \in Rows(rsi.rsi) :
                (t >= rsi.period /\ t >= 2) => rsi.rsi[t] = Rat(0, 1)

\* a strictly decreasing series whose rows past warm-up all read 0
C12_Witness ==
    /\ rsi.pc = "done"
    /\ StrictlyDecreasing(rsi.close)
    /\ rsi.period >= 2
    /\ Len(rsi.close) > rsi.period
    /\ rsi.rsi[Len(rsi.close)] = Rat(0, 1)

Flat(x) == \A t \in 2..Len(x) : x[t - 1] = x[t]

\* C13: the returned rsi is 100 on every row whose average loss is 0 and 0 on
\* every row whose average gain is 0, and on an all-flat close series no row
\* past warm-up is NaN.
C13_EdgeCases ==
    rsi.pc = "done" =>
        /\ \A t \in Rows(rsi.rsi) :
            /\ IsZero(rsi.avg_loss[t]) => rsi.rsi[t] = Rat(100, 1)
            /\ IsZero(rsi.avg_gain[t]) => rsi.rsi[t] = Rat(0, 1)
        /\ Flat(rsi.close) =>
            \A t \in Rows(rsi.rsi) : t >= rsi.period => ~rsi.rsi[t].nan

\* C13 as amended: the returned rsi is 100 on every row whose average loss is
\* 0, and 0 on every row whose average gain is 0 and whose average loss is
\* not; on an all-flat close series every row past warm-up is 100.
C13_EdgeCasesLossFirst ==
    rsi.pc = "done" =>
        /\ \A t \in Rows(rsi.rsi) :
            /\ IsZero(rsi.avg_loss[t]) => rsi.rsi[t] = Rat(100, 1)
            /\ (IsZero(rsi.avg_gain[t]) /\ ~IsZero(rsi.avg_loss[t])) =>
                    rsi.rsi[t] = Rat(0, 1)
        /\ Flat(rsi.close) =>
            \A t \in Rows(rsi.rsi) : t >= rsi.period => rsi.rsi[t] = Rat(100, 1)

\* an all-flat series of several rows, returned with 100 past warm-up
C13_Witness ==
    /\ rsi.pc = "done"
    /\ Flat(rsi.close)
    /\ Len(rsi.close) > rsi.period
    /\ IsZero(rsi.avg_gain[Len(rsi.close)])
    /\ IsZero(rsi.avg_loss[Len(rsi.close)])
    /\ rsi.rsi[Len(rsi.close)] = Rat(100, 1)

(***************************************************************************)
(* BollingerBands.calculate (services/indicators/bollinger_bands.py)       *)
(* Band values are fixed-point cells [nan, v] in units of 1/B.             *)
(***************************************************************************)
B == 1000

NaNCell == [nan |-> TRUE, v |-> 0]

Cell(v) == [nan |-> FALSE, v |-> v]

\* twice num_std: the bands lie 0, 0.5 or 2.0 deviations from the middle
NumStd2Choices == {0, 1, 4}

RECURSIVE ISqrtBetween(_, _, _)
\* the largest r in lo..hi with r * r <= n
ISqrtBetween(n, lo, hi) ==
    IF lo >= hi THEN lo
    ELSE LET mid == (lo + hi + 1) \div 2
         IN  IF mid * mid <= n THEN ISqrtBetween(n, mid, hi)
             ELSE ISqrtBetween(n, lo, mid - 1)

ISqrt(n) == ISqrtBetween(n, 0, 46340)

RECURSIVE WindowSum(_, _, _)
WindowSum(x, lo, hi) == IF lo > hi THEN 0 ELSE x[hi] + WindowSum(x, lo, hi - 1)

RECURSIVE WindowSumSq(_, _, _)
WindowSumSq(x, lo, hi) ==
    IF lo > hi THEN 0 ELSE x[hi] * x[hi] + WindowSumSq(x, lo, hi - 1)

\* Series.rolling(window, min_periods=1).std(): the sample deviation of the
\* last `window` rows, undefined on fewer than two rows
rolling_std(x, window) ==
    [t \in 1..Len(x) |->
        LET lo == IF t - window + 1 < 1 THEN 1 ELSE t - window + 1
            n == t - lo + 1
            ss == n * WindowSumSq(x, lo, t) - WindowSum(x, lo, t) * WindowSum(x, lo, t)
        IN  IF n < 2 THEN NaNCell
            ELSE Cell(ISqrt((ss * B * B) \div (n * (n - 1))))]

\* lines 23-26: close.ewm(span=period, min_periods=1).mean()
bb_middle(close, period) ==
    LET cells == [t \in 1..Len(close) |-> Rat(close[t], 1)]
        mean == ewm_mean(cells, period, 1)
    IN  [t \in 1..Len(close) |-> Cell((mean[t].num * B) \div mean[t].den)]

\* lines 35-36: bb_middle + / - rolling_std * num_std
Band(middle, std, num_std2, sign) ==
    [t \in 1..Len(middle) |->
        IF middle[t].nan \/ std[t].nan THEN NaNCell
        ELSE Cell(middle[t].v + sign * ((std[t].v * num_std2) \div 2))]

\* line 39
Difference(upper, lower) ==
    [t \in 1..Len(upper) |->
        IF upper[t].nan \/ lower[t].nan THEN NaNCell
        ELSE Cell(upper[t].v - lower[t].v)]

\* Series.replace(0, np.nan)
ReplaceZero(col) ==
    [t \in 1..Len(col) |-> IF ~col[t].nan /\ col[t].v = 0 THEN NaNCell ELSE col[t]]

\* a / b, cell by cell, for a column b without zeros
Quotient(a, b) ==
    [t \in 1..Len(a) |->
        IF a[t].nan \/ b[t].nan THEN NaNCell ELSE Cell((a[t].v * B) \div b[t].v)]

\* line 44: close - bb_lower
PriceFromLower(close, lower) ==
    [t \in 1..Len(close) |->
        IF lower[t].nan THEN NaNCell ELSE Cell(close[t] * B - lower[t].v)]

\* line 49: result_df.loc[band_range.isna(), 'bb_percent_b'] = 0.5
EdgeBand(col, band_range) ==
    [t \in 1..Len(col) |-> IF band_range[t].nan THEN Cell(B \div 2) ELSE col[t]]

\* line 50: result_df.loc[result_df['bb_percent_b'] > 1, 'bb_percent_b'] = 1
ClampHigh_Skipped(col) == col

ClampHigh(col) ==
    [t \in 1..Len(col) |-> IF ~col[t].nan /\ col[t].v > B THEN Cell(B) ELSE col[t]]

\* line 51: result_df.loc[result_df['bb_percent_b'] < 0, 'bb_percent_b'] = 0
ClampLow(col) ==
    [t \in 1..Len(col) |-> IF ~col[t].nan /\ col[t].v < 0 THEN Cell(0) ELSE col[t]]

BbInit ==
    \E close \in CloseSeries, period \in Periods, num_std2 \in NumStd2Choices :
        bb = [pc |-> "start", period |-> period, num_std2 |-> num_std2,
              close |-> close]

BbWith(fields) ==
    [k \in DOMAIN bb \cup DOMAIN fields |->
        IF k \in DOMAIN fields THEN fields[k] ELSE bb[k]]

\* lines 23-32
BbMiddleAndStd ==
    /\ bb.pc = "start"
    /\ bb' = BbWith([pc |-> "middle",
                     bb_middle |-> bb_middle(bb.close, bb.period),
                     rolling_std |-> rolling_std(bb.close, bb.period)])
    /\ UNCHANGED <<lev_cfg, lev_call, lev_prev, vp, an, dr, rsi, px, sw, pl, gr, ir>>

\* lines 35-36
BbBands ==
    /\ bb.pc = "middle"
    /\ bb' = BbWith([pc |-> "bands",
                     bb_upper |-> Band(bb.bb_middle, bb.rolling_std, bb.num_std2, 1),
                     bb_lower |-> Band(bb.bb_middle, bb.rolling_std, bb.num_std2, -1)])
    /\ UNCHANGED <<lev_cfg, lev_call, lev_prev, vp, an, dr, rsi, px, sw, pl, gr, ir>>

\* lines 39-41
BbBandwidth ==
    /\ bb.pc = "bands"
    /\ LET bb_diff == Difference(bb.bb_upper, bb.bb_lower)
       IN  bb' = BbWith([pc |-> "bandwidth", bb_diff |-> bb_diff,
                         bb_bandwidth |-> Quotient(bb_diff, ReplaceZero(bb.bb_middle))])
    /\ UNCHANGED <<lev_cfg, lev_call, lev_prev, vp, an, dr, rsi, px, sw, pl, gr, ir>>

\* lines 44-46
BbPercentB ==
    /\ bb.pc = "bandwidth"
    /\ LET band_range == ReplaceZero(bb.bb_diff)
       IN  bb' = BbWith([pc |-> "percent_b", band_range |-> band_range,
                         bb_percent_b |->
                            Quotient(PriceFromLower(bb.close, bb.bb_lower), band_range)])
    /\ UNCHANGED <<lev_cfg, lev_call, lev_prev, vp, an, dr, rsi, px, sw, pl, gr, ir>>

\* line 49
BbEdge ==
    /\ bb.pc = "percent_b"
    /\ bb' = BbWith([pc |-> "edge", raw |-> bb.bb_percent_b,
                     bb_percent_b |-> EdgeBand(bb.bb_percent_b, bb.band_range)])
    /\ UNCHANGED <<lev_cfg, lev_call, lev_prev, vp, an, dr, rsi, px, sw, pl, gr, ir>>

\* line 50
BbClampHigh ==
    /\ bb.pc = "edge"
    /\ bb' = BbWith([pc |-> "clamped_high", bb_percent_b |-> ClampHigh(bb.bb_percent_b)])
    /\ UNCHANGED <<lev_cfg, lev_call, lev_prev, vp, an, dr, rsi, px, sw, pl, gr, ir>>

\* lines 51-53
BbClampLow ==
    /\ bb.pc = "clamped_high"
    /\ bb' = BbWith([pc |-> "done", bb_percent_b |-> ClampLow(bb.bb_percent_b)])
    /\ UNCHANGED <<lev_cfg, lev_call, lev_prev, vp, an, dr, rsi, px, sw, pl, gr, ir>>

BbNext ==
    \/ BbMiddleAndStd \/ BbBands \/ BbBandwidth \/ BbPercentB
    \/ BbEdge \/ BbClampHigh \/ BbClampLow

BollingerInit ==
    /\ BbInit /\ lev_cfg = Idle /\ lev_call = NoCall /\ lev_prev = NoCall
    /\ vp = Idle /\ an = Idle /\ dr = Idle /\ rsi = Idle /\ px = Idle /\ sw = Idle /\ pl = Idle /\ gr = Idle /\ ir = Idle

SpecBollinger == BollingerInit /\ [][BbNext]_vars

\* C14: every value of the returned bb_percent_b column lies in [0, 1], and
\* it is 0.5 on every row where the upper and the lower band coincide or the
\* band width is undefined, the first row included.
C14_PercentBClamped ==
    bb.pc = "done" =>
        \A t \in Rows(bb.close) :
            /\ ~bb.bb_percent_b[t].nan
            /\ 0 <= bb.bb_percent_b[t].v
            /\ bb.bb_percent_b[t].v <= B
            /\ (bb.bb_diff[t].nan \/ bb.bb_upper[t] = bb.bb_lower[t] \/ t = 1) =>
                    bb.bb_percent_b[t].v = B \div 2

\* a returned column whose first row is the fallback, with a row that lay
\* above the upper band and a row on collapsed bands
C14_Witness ==
    /\ bb.pc = "done"
    /\ bb.bb_percent_b[1].v = B \div 2
    /\ \E t \in Rows(bb.close) : bb.raw[t].v > B /\ bb.bb_percent_b[t].v = B
    /\ \E t \in Rows(bb.close) :
        /\ ~bb.bb_diff[t].nan /\ bb.bb_upper[t] = bb.bb_lower[t]
        /\ bb.bb_percent_b[t].v = B \div 2

(***************************************************************************)
(* Indicator.calculate(df) of the ten indicators (services/indicators)     *)
(* A frame is an object [id, rows, columns]; columns maps the name of each *)
(* column to the writer of its contents ("input" for the caller's data).   *)
(***************************************************************************)
MaxFrameRows == 2

Indicators ==
    {"RSI", "MACD", "BollingerBands", "ATR", "OBV", "VolumeProfile",
     "Ichimoku", "EMA", "MA", "Stochastic"}

\* the indicators whose calculate starts with result_df = df.copy()
CopyingIndicators == {"RSI", "MACD", "BollingerBands", "ATR", "VolumeProfile"}

\* the columns calculate assigns, with the default periods
OutputColumns(indicator) ==
    CASE indicator = "RSI" -> {"rsi"}
      [] indicator = "MACD" -> {"macd", "macd_signal", "macd_hist"}
      [] indicator = "BollingerBands" ->
            {"bb_middle", "bb_upper", "bb_lower", "bb_bandwidth", "bb_percent_b"}
      [] indicator = "ATR" -> {"atr"}
      [] indicator = "OBV" -> {"obv", "obv_ema"}
      [] indicator = "VolumeProfile" ->
            {"vwap", "price_bin", "poc_price", "va_high", "va_low"}
      [] indicator = "Ichimoku" ->
            {"tenkan_sen", "kijun_sen", "senkou_span_a", "senkou_span_b",
             "chikou_span"}
      [] indicator = "EMA" -> {"ema_20"}
      [] indicator = "MA" -> {"ma_20"}
      [] indicator = "Stochastic" -> {"stoch_k", "stoch_d"}

OHLCV == {"open", "high", "low", "close", "volume"}

\* the caller's frame: the OHLCV columns and any of the indicator's columns
\* left by an earlier computation
CallerFrames(indicator) ==
    { [id |-> 1, rows |-> n,
       columns |-> [c \in OHLCV \cup earlier |-> "input"]] :
        n \in 1..MaxFrameRows, earlier \in SUBSET OutputColumns(indicator) }

\* df[c] = ... for every output column c of the indicator
Assign(frame, indicator) ==
    [frame EXCEPT !.columns =
        [c \in DOMAIN frame.columns \cup OutputColumns(indicator) |->
            IF c \in OutputColumns(indicator) THEN indicator
            ELSE frame.columns[c]]]

PxInit ==
    \E indicator \in Indicators :
        \E df \in CallerFrames(indicator) :
            px = [pc |-> "called", indicator |-> indicator, input |-> df,
                  df |-> df, result_df |-> df]

\* result_df = df.copy()
PxCopy ==
    /\ px.pc = "called"
    /\ px.indicator \in CopyingIndicators
    /\ px' = [px EXCEPT !.pc = "copied", !.result_df = [px.df EXCEPT !.id = 2]]
    /\ UNCHANGED <<lev_cfg, lev_call, lev_prev, vp, an, dr, rsi, bb, sw, pl, gr, ir>>

\* the column assignments on the copy
PxAssignCopy ==
    /\ px.pc = "copied"
    /\ px' = [px EXCEPT !.pc = "assigned",
                        !.result_df = Assign(px.result_df, px.indicator)]
    /\ UNCHANGED <<lev_cfg, lev_call, lev_prev, vp, an, dr, rsi, bb, sw, pl, gr, ir>>

\* the column assignments of an indicator that works on df itself
PxAssignInPlace ==
    /\ px.pc = "called"
    /\ px.indicator \notin CopyingIndicators
    /\ px' = [px EXCEPT !.pc = "assigned",
                        !.df = Assign(px.df, px.indicator),
                        !.result_df = Assign(px.df, px.indicator)]
    /\ UNCHANGED <<lev_cfg, lev_call, lev_prev, vp, an, dr, rsi, bb, sw, pl, gr, ir>>

\* return result_df / return df
PxReturn ==
    /\ px.pc = "assigned"
    /\ px' = [px EXCEPT !.pc = "returned"]
    /\ UNCHANGED <<lev_cfg, lev_call, lev_prev, vp, an, dr, rsi, bb, sw, pl, gr, ir>>

PxNext == PxCopy \/ PxAssignCopy \/ PxAssignInPlace \/ PxReturn

IndicatorInit ==
    /\ PxInit /\ lev_cfg = Idle /\ lev_call = NoCall /\ lev_prev = NoCall
    /\ vp = Idle /\ an = Idle /\ dr = Idle /\ rsi = Idle /\ bb = Idle /\ sw = Idle /\ pl = Idle /\ gr = Idle /\ ir = Idle

SpecIndicator == IndicatorInit /\ [][PxNext]_vars

\* C17: whichever indicator is called, the caller's frame is as it was
\* before the call (no column added or overwritten, no row removed) and the
\* frame returned is a separate object.
C17_InputFrameUnchanged ==
    /\ px.df = px.input
    /\ px.pc = "returned" => px.result_df.id # px.df.id

(***************************************************************************)
(* SwapAnalyzerV2.calculate and analyze_signals (services/swap_analyzer_v2)*)
(* The frame has the rows 0..n-1; nan maps each computed column to the     *)
(* rows on which it is NaN whatever the prices are (warm-up of a window,   *)
(* rows moved in by a shift).                                              *)
(***************************************************************************)
MaxBars == 80

\* analyze_signals skips the rows i < 52
WarmUp == 52

FrameRows(n) == 0..(n - 1)

\* Series.rolling(window).<aggregate>() of a column that is NaN on src_nan
RollingNaN(src_nan, window, n) ==
    { t \in FrameRows(n) :
        t - window + 1 < 0 \/ \E u \in (t - window + 1)..t : u \in src_nan }

\* Series.shift(k) of a column that is NaN on src_nan
ShiftNaN(src_nan, k, n) ==
    { t \in FrameRows(n) :
        t - k < 0 \/ t - k > n - 1 \/ (t - k) \in src_nan }

\* Series.ewm(span, min_periods).mean() of a column without NaN
EwmNaN(min_periods, n) == { t \in FrameRows(n) : t + 1 < min_periods }

\* self.indicators, in order (lines 18-25)
SwIndicators ==
    <<"RSI", "ATR", "VolumeProfile", "MACD", "BollingerBands", "Ichimoku">>

\* the NaN rows of the columns an indicator of the list adds
IndicatorNaN(indicator, n) ==
    CASE indicator = "RSI" -> [c \in {"rsi"} |-> EwmNaN(14, n)]
      [] indicator = "ATR" -> [c \in {"atr"} |-> EwmNaN(1, n)]
      [] indicator = "VolumeProfile" ->
            [c \in OutputColumns("VolumeProfile") |-> {}]
      [] indicator = "MACD" -> [c \in OutputColumns("MACD") |-> EwmNaN(1, n)]
      [] indicator = "BollingerBands" ->
            [c \in OutputColumns("BollingerBands") |->
                IF c \in {"bb_upper", "bb_lower", "bb_bandwidth"}
                THEN RollingNaN({}, 2, n) ELSE {}]
      [] indicator = "Ichimoku" ->
            [c \in OutputColumns("Ichimoku") |->
                CASE c = "tenkan_sen" -> RollingNaN({}, 9, n)
                  [] c = "kijun_sen" -> RollingNaN({}, 26, n)
                  [] c = "senkou_span_a" -> ShiftNaN(RollingNaN({}, 26, n), 26, n)
                  [] c = "senkou_span_b" -> ShiftNaN(RollingNaN({}, 52, n), 26, n)
                  [] c = "chikou_span" -> ShiftNaN({}, -26, n)]

\* lines 33-39: returns, volatility, vol_ma7, vol_ma30, volume_ratio
VolatilityNaN(n) ==
    [c \in {"returns", "volatility", "vol_ma7", "vol_ma30", "volume_ratio"} |->
        CASE c = "returns" -> ShiftNaN({}, 1, n)
          [] c = "volatility" -> RollingNaN(ShiftNaN({}, 1, n), 20, n)
          [] c = "vol_ma7" -> RollingNaN({}, 7, n)
          [] c = "vol_ma30" -> RollingNaN({}, 30, n)
          [] c = "volume_ratio" -> RollingNaN({}, 30, n)]

Merge(f, g) ==
    [c \in DOMAIN f \cup DOMAIN g |-> IF c \in DOMAIN g THEN g[c] ELSE f[c]]

NoColumns == [c \in {} |-> {}]

SwInit ==
    \E n \in 0..MaxBars :
        sw = [pc |-> "indicators", n |-> n, k |-> 1, i |-> 0,
              nan |-> NoColumns, scored |-> {}, error |-> "none"]

\* lines 29-30: df = indicator.calculate(df), one indicator of the list
SwIndicator ==
    /\ sw.pc = "indicators"
    /\ sw.k <= Len(SwIndicators)
    /\ sw' = [sw EXCEPT !.k = @ + 1,
                        !.nan = Merge(@, IndicatorNaN(SwIndicators[sw.k], sw.n))]
    /\ UNCHANGED <<lev_cfg, lev_call, lev_prev, vp, an, dr, rsi, bb, px, pl, gr, ir>>

\* lines 33-41: the volatility and volume columns; calculate returns
SwVolatility ==
    /\ sw.pc = "indicators"
    /\ sw.k > Len(SwIndicators)
    /\ sw' = [sw EXCEPT !.pc = "calculated",
                        !.nan = Merge(@, VolatilityNaN(sw.n))]
    /\ UNCHANGED <<lev_cfg, lev_call, lev_prev, vp, an, dr, rsi, bb, px, pl, gr, ir>>

\* lines 45-48: the signal, confidence, suggested_leverage and stop_loss_pct
\* columns, all zero
SwSignalColumns ==
    /\ sw.pc = "calculated"
    /\ sw' = [sw EXCEPT !.pc = "rows",
                        !.nan = Merge(@, [c \in {"signal", "confidence",
                                                 "suggested_leverage",
                                                 "stop_loss_pct"} |-> {}])]
    /\ UNCHANGED <<lev_cfg, lev_call, lev_prev, vp, an, dr, rsi, bb, px, pl, gr, ir>>

\* lines 50-52: a row of the warm-up prefix is skipped
SwSkipRow ==
    /\ sw.pc = "rows"
    /\ sw.i < sw.n
    /\ sw.i < WarmUp
    /\ sw' = [sw EXCEPT !.i = @ + 1]
    /\ UNCHANGED <<lev_cfg, lev_call, lev_prev, vp, an, dr, rsi, bb, px, pl, gr, ir>>

\* lines 55-57: the first row past the prefix reads df['atr_pct'], a column
\* that neither calculate nor any indicator creates
SwRowRaises ==
    /\ sw.pc = "rows"
    /\ sw.i < sw.n
    /\ sw.i >= WarmUp
    /\ "atr_pct" \notin DOMAIN sw.nan
    /\ sw' = [sw EXCEPT !.pc = "failed", !.error = "KeyError"]
    /\ UNCHANGED <<lev_cfg, lev_call, lev_prev, vp, an, dr, rsi, bb, px, pl, gr, ir>>

\* line 74: the loop is over, the frame is returned
SwReturn ==
    /\ sw.pc = "rows"
    /\ sw.i = sw.n
    /\ sw' = [sw EXCEPT !.pc = "returned"]
    /\ UNCHANGED <<lev_cfg, lev_call, lev_prev, vp, an, dr, rsi, bb, px, pl, gr, ir>>

SwNext ==
    \/ SwIndicator \/ SwVolatility \/ SwSignalColumns
    \/ SwSkipRow \/ SwRowRaises \/ SwReturn

SwapV2Init ==
    /\ SwInit /\ lev_cfg = Idle /\ lev_call = NoCall /\ lev_prev = NoCall
    /\ vp = Idle /\ an = Idle /\ dr = Idle /\ rsi = Idle /\ bb = Idle
    /\ px = Idle /\ pl = Idle /\ gr = Idle /\ ir = Idle

SpecSwapV2 == SwapV2Init /\ [][SwNext]_vars

\* the rows past the warm-up prefix on which some column is NaN
UndefinedPastWarmUp ==
    { t \in FrameRows(sw.n) :
        t >= WarmUp /\ \E c \in DOMAIN sw.nan : t \in sw.nan[c] }

\* C18: when the analysis of a frame is over, either no column holds a NaN
\* on a row past the warm-up prefix, or the analysis has ended in a
\* validation error without scoring the frame.
C18_NoUndefinedPastWarmUp ==
    (sw.pc \in {"returned", "failed"}) =>
        \/ UndefinedPastWarmUp = {}
        \/ (sw.pc = "failed" /\ sw.error = "ValidationError" /\ sw.scored = {})

(***************************************************************************)
(* The pipelines MarketAnalyzer.analyze_spot (one timeframe) and           *)
(* GridAnalyzer.analyze, run twice on the same caller's frame              *)
(* The contents of a column are a term: [by |-> "input"] for data of the   *)
(* caller, or the indicator that computed it and the contents it read.     *)
(***************************************************************************)
Input(c) == [col |-> c, by |-> "input", from |-> [x \in {} |-> 0]]

\* the two EMA instances of MarketAnalyzer and the columns GridAnalyzer's
\* score methods assign on their frame
OutputOf(inst) ==
    CASE inst = "EMA_20" -> {"ema_20"}
      [] inst = "EMA_50" -> {"ema_50"}
      [] inst = "norm_atr" -> {"norm_atr"}
      [] inst = "bb_width" -> {"bb_width"}
      [] OTHER -> OutputColumns(inst)

\* the columns a computation reads
InputColumns(inst) ==
    CASE inst \in {"EMA_20", "EMA_50", "MACD", "BollingerBands", "RSI"} -> {"close"}
      [] inst \in {"Stochastic", "ATR"} -> {"high", "low", "close"}
      [] inst = "OBV" -> {"close", "volume"}
      [] inst = "VolumeProfile" -> {"high", "low", "close", "volume"}
      [] inst = "norm_atr" -> {"atr", "close"}
      [] inst = "bb_width" -> {"bb_upper", "bb_lower", "bb_middle"}

\* what a computation reads of a frame
Sources_WithEarlierOutput(inst, frame) ==
    [c \in InputColumns(inst) \cup (OutputOf(inst) \cap DOMAIN frame.columns) |->
        frame.columns[c]]

Sources(inst, frame) == [c \in InputColumns(inst) |-> frame.columns[c]]

\* the frame with the output columns of inst assigned
Computed(inst, frame) ==
    [frame EXCEPT !.columns =
        Merge(@, [c \in OutputOf(inst) |->
                    [col |-> c, by |-> inst, from |-> Sources(inst, frame)]])]

Calc(inst, fresh) == [op |-> "calc", inst |-> inst, fresh |-> fresh]

Read == [op |-> "read", inst |-> "none", fresh |-> FALSE]

\* MarketAnalyzer._calculate_indicators(df), lines 582-591
CalculateIndicatorsOps ==
    <<Calc("EMA_20", TRUE), Calc("EMA_50", FALSE), Calc("MACD", FALSE),
      Calc("BollingerBands", FALSE), Calc("RSI", FALSE),
      Calc("Stochastic", FALSE), Calc("ATR", FALSE), Calc("OBV", FALSE),
      Calc("VolumeProfile", FALSE)>>

\* analyze_spot on one timeframe: _analyze_single_timeframe scores the
\* indicator frame, _calculate_weighted_atr calls atr.calculate(df) and
\* _calculate_market_status calls _calculate_indicators(df) again
SpotOps ==
    CalculateIndicatorsOps \o <<Read, Calc("ATR", TRUE), Read>>
        \o CalculateIndicatorsOps \o <<Read>>

\* GridAnalyzer.analyze, lines 38-47
GridOps ==
    <<Calc("ATR", TRUE), Calc("RSI", FALSE), Calc("BollingerBands", FALSE),
      Calc("OBV", FALSE), Calc("norm_atr", FALSE), Calc("bb_width", FALSE), Read>>

OpsOf(pipeline) == IF pipeline = "spot" THEN SpotOps ELSE GridOps

\* columns an earlier computation may have left in the caller's frame
EarlierColumns == {"ema_20", "obv"}

PlInit ==
    \E pipeline \in {"spot", "grid"}, earlier \in SUBSET EarlierColumns :
        LET df == [id |-> 1, columns |-> [c \in OHLCV \cup earlier |-> Input(c)]]
        IN  pl = [pc |-> "running", pipeline |-> pipeline, run |-> 1, k |-> 1,
                  caller |-> df, work |-> df, started |-> <<df>>,
                  seen |-> <<>>, results |-> <<>>]

PlOp == OpsOf(pl.pipeline)[pl.k]

PlSource == IF PlOp.fresh THEN pl.caller ELSE pl.work

\* an indicator that copies the frame it is given
PlCalcOnCopy ==
    /\ pl.pc = "running" /\ pl.k <= Len(OpsOf(pl.pipeline))
    /\ PlOp.op = "calc" /\ PlOp.inst \in CopyingIndicators
    /\ pl' = [pl EXCEPT !.k = @ + 1,
                        !.work = [Computed(PlOp.inst, PlSource) EXCEPT !.id = 2]]
    /\ UNCHANGED <<lev_cfg, lev_call, lev_prev, vp, an, dr, rsi, bb, px, sw, gr, ir>>

\* a computation that assigns on the frame it is given, which is the
\* caller's frame when no copy has been taken yet
PlCalcInPlace ==
    /\ pl.pc = "running" /\ pl.k <= Len(OpsOf(pl.pipeline))
    /\ PlOp.op = "calc" /\ PlOp.inst \notin CopyingIndicators
    /\ pl' = [pl EXCEPT !.k = @ + 1,
                        !.work = Computed(PlOp.inst, PlSource),
                        !.caller = IF PlSource.id = 1
                                   THEN Computed(PlOp.inst, PlSource) ELSE @]
    /\ UNCHANGED <<lev_cfg, lev_call, lev_prev, vp, an, dr, rsi, bb, px, sw, gr, ir>>

\* the scoring reads the frame computed so far
PlRead ==
    /\ pl.pc = "running" /\ pl.k <= Len(OpsOf(pl.pipeline))
    /\ PlOp.op = "read"
    /\ pl' = [pl EXCEPT !.k = @ + 1, !.seen = Append(@, pl.work.columns)]
    /\ UNCHANGED <<lev_cfg, lev_call, lev_prev, vp, an, dr, rsi, bb, px, sw, gr, ir>>

\* the first run returns its result; the second starts on the same frame
PlSecondRun ==
    /\ pl.pc = "running" /\ pl.k > Len(OpsOf(pl.pipeline))
    /\ pl.run = 1
    /\ pl' = [pl EXCEPT !.run = 2, !.k = 1, !.seen = <<>>,
                        !.results = Append(@, pl.seen),
                        !.started = Append(@, pl.caller),
                        !.work = pl.caller]
    /\ UNCHANGED <<lev_cfg, lev_call, lev_prev, vp, an, dr, rsi, bb, px, sw, gr, ir>>

\* the second run returns its result
PlDone ==
    /\ pl.pc = "running" /\ pl.k > Len(OpsOf(pl.pipeline))
    /\ pl.run = 2
    /\ pl' = [pl EXCEPT !.pc = "done", !.results = Append(@, pl.seen)]
    /\ UNCHANGED <<lev_cfg, lev_call, lev_prev, vp, an, dr, rsi, bb, px, sw, gr, ir>>

PlNext == PlCalcOnCopy \/ PlCalcInPlace \/ PlRead \/ PlSecondRun \/ PlDone

PipelineInit ==
    /\ PlInit /\ lev_cfg = Idle /\ lev_call = NoCall /\ lev_prev = NoCall
    /\ vp = Idle /\ an = Idle /\ dr = Idle /\ rsi = Idle /\ bb = Idle
    /\ px = Idle /\ sw = Idle /\ gr = Idle /\ ir = Idle

SpecPipeline == PipelineInit /\ [][PlNext]_vars

\* C19: two successive runs of a pipeline on the same frame read the same
\* indicator contents, and so return equal results, also when the first run
\* has written indicator columns into the frame.
C19_SecondRunEqualsFirst ==
    pl.pc = "done" => pl.results[1] = pl.results[2]

\* the second run of analyze_spot started on a frame into which the first
\* had written ema_20
C19_Witness ==
    /\ pl.pc = "done"
    /\ pl.pipeline = "spot"
    /\ "ema_20" \notin DOMAIN pl.started[1].columns
    /\ "ema_20" \in DOMAIN pl.started[2].columns
    /\ pl.started[2].columns["ema_20"].by = "EMA_20"
    /\ pl.results[1] = pl.results[2]

(***************************************************************************)
(* GridAnalyzer.analyze (services/grid_analyzer.py)                        *)
(*                                                                         *)
(* Each score reads the last rows of one or two indicator columns; the     *)
(* columns are drawn where they are read.  Scores are cells in units of    *)
(* 1/GS, prices are exact rationals.                                       *)
(***************************************************************************)
GS == 1000

MaxRecent == 3

MaxCell == 1

\* the rows that tail(30) returns of a frame of n rows
RecentColumns(n, values) == [1..n -> values]

ColSum(x) == WindowSum(x, 1, Len(x))

\* Series.mean(), in units of 1/GS of the column's unit
Mean(x) == (GS * ColSum(x)) \div Len(x)

\* n times the sum of squared deviations from the mean, times n
Spread(x) == Len(x) * WindowSumSq(x, 1, Len(x)) - ColSum(x) * ColSum(x)

\* Series.std() / |Series.mean()| of a column whose mean is not zero, in
\* units of 1/GS: std() is the sample deviation (ddof = 1)
StdOverMean(x) ==
    ISqrt((GS * GS * Len(x) * Spread(x))
              \div ((Len(x) - 1) * ColSum(x) * ColSum(x)))

\* |np.corrcoef(index, values)[0, 1]| for the index 1..n, in units of 1/GS
\* to the hundredth; undefined on a constant column
AbsCorrcoef(y) ==
    LET n  == Len(y)
        ix == [i \in 1..n |-> i]
        xy == [i \in 1..n |-> i * y[i]]
        cov == n * ColSum(xy) - ColSum(ix) * ColSum(y)
    IN  IF Spread(y) = 0 THEN NaNCell
        ELSE Cell(10 * ISqrt((100 * 100 * cov * cov) \div (Spread(ix) * Spread(y))))

\* _calculate_volatility_score on a norm_atr column in percent
grid_calculate_volatility_score(recent_norm_atr) ==
    LET mean_norm_atr == Mean(recent_norm_atr)
    IN  IF mean_norm_atr = 0 THEN Cell(0)
        ELSE LET atr_stability == GS - StdOverMean(recent_norm_atr)
             IN  Cell(Min2(Max2((mean_norm_atr * atr_stability) \div GS, 0), GS))

\* the RSI values a row can hold: inside and outside the band of line 83
RsiValues == {30, 50}

\* _calculate_trend_score
grid_calculate_trend_score(recent_rsi, recent_bb_width) ==
    LET in_band == { i \in 1..Len(recent_rsi) :
                        recent_rsi[i] >= 35 /\ recent_rsi[i] <= 65 }
        rsi_range_score == (GS * Cardinality(in_band)) \div Len(recent_rsi)
        bb_width_mean == Mean(recent_bb_width)
        bb_width_stability ==
            IF bb_width_mean = 0 THEN 0 ELSE GS - StdOverMean(recent_bb_width)
    IN  Cell((rsi_range_score + bb_width_stability) \div 2)

\* _calculate_volume_score
grid_calculate_volume_score(recent_obv) ==
    LET obv_trend == AbsCorrcoef(recent_obv)
        obv_mean == Abs(Mean(recent_obv))
        obv_stability == IF obv_mean = 0 THEN 0 ELSE GS - StdOverMean(recent_obv)
    IN  IF obv_trend.nan THEN NaNCell
        ELSE Cell((obv_trend.v + obv_stability) \div 2)

\* line 47
composite_score(volatility_score, trend_score, volume_score) ==
    IF volatility_score.nan \/ trend_score.nan \/ volume_score.nan THEN NaNCell
    ELSE Cell((volatility_score.v * 6 + trend_score.v * 2 + volume_score.v * 2)
                  \div 10)

RatMul(a, b) ==
    LET g1 == GCD(Abs(a.num), b.den)
        g2 == GCD(Abs(b.num), a.den)
        n1 == IF g1 = 0 THEN 1 ELSE g1
        n2 == IF g2 = 0 THEN 1 ELSE g2
    IN  Rat((a.num \div n1) * (b.num \div n2), (a.den \div n2) * (b.den \div n1))

RatAdd(a, b) ==
    LET g == GCD(a.den, b.den)
    IN  Rat(a.num * (b.den \div g) + b.num * (a.den \div g), (a.den \div g) * b.den)

RatSub(a, b) == RatAdd(a, Neg(b))

RatLess(a, b) == RatSub(a, b).num < 0

RatMax(a, b) == IF RatLess(a, b) THEN b ELSE a

RatMin(a, b) == IF RatLess(b, a) THEN b ELSE a

\* int(): truncation toward zero
Trunc(a) == IF a.num >= 0 THEN a.num \div a.den ELSE -((-a.num) \div a.den)

\* get_grid_parameters, from what it reads of the frame: the last close,
\* the efficiency ratio of lines 133-137, the mean and the last value of
\* rsi.tail(20), the mean of atr.tail(20) and the mean absolute change of
\* the close
get_grid_parameters(current_price, efficiency_ratio, rsi_mean, rsi_last, atr_mean, mean_abs_change) ==
    LET rsi_deviation == Rat(Abs(rsi_mean - 50), 50)
        trend_strength == RatMul(rsi_deviation, efficiency_ratio)
        recent_volatility == RatMax(RatDiv(atr_mean, current_price), Rat(1, 100))
        price_range ==
            RatMax(RatMul(RatMul(current_price, recent_volatility),
                          RatMul(RatAdd(Rat(1, 1), trend_strength), Rat(2, 1))),
                   RatMul(current_price, Rat(2, 100)))
        up == IF RatLess(Rat(3, 10), trend_strength)
              THEN IF rsi_last > 50 THEN Rat(6, 10) ELSE Rat(4, 10)
              ELSE Rat(1, 2)
        down == RatSub(Rat(1, 1), up)
        upper_price ==
            RatMul(current_price, RatAdd(Rat(1, 1), RatMul(price_range, up)))
        lower_price ==
            RatMul(current_price, RatSub(Rat(1, 1), RatMul(price_range, down)))
        volatility_factor == RatMin(RatMul(recent_volatility, Rat(100, 1)), Rat(1, 1))
        base_grid_number ==
            Trunc(RatMul(Rat(20, 1), RatAdd(Rat(1, 1), volatility_factor)))
        grid_modifier == IF RatLess(Rat(7, 10), efficiency_ratio) THEN Rat(13, 10)
                         ELSE IF RatLess(efficiency_ratio, Rat(3, 10)) THEN Rat(7, 10)
                         ELSE Rat(1, 1)
        grid_number == Max2(Trunc(RatMul(Rat(base_grid_number, 1), grid_modifier)), 4)
        min_price_movement ==
            RatMax(mean_abs_change, RatMul(current_price, Rat(1, 1000)))
        min_grid_size == RatMul(min_price_movement, Rat(3, 1))
        final_range == RatSub(upper_price, lower_price)
        max_grids_by_range == Max2(Trunc(RatDiv(final_range, min_grid_size)), 4)
    IN  [upper_price |-> upper_price, lower_price |-> lower_price,
         grid_number |-> Min2(grid_number, max_grids_by_range),
         current_price |-> current_price, min_grid_size |-> min_grid_size]

GridPrices == {Rat(1, 100), Rat(1, 1), Rat(100, 1)}

EfficiencyRatios == {Rat(0, 1), Rat(1, 2), Rat(4, 5)}

RsiMeans == {50, 90}

RsiLast == {40, 60}

\* the mean ATR and the mean absolute change of the close as fractions of
\* the last close; a true range is no smaller than the change of the close
PriceMoves ==
    LET levels == {Rat(0, 1), Rat(1, 200), Rat(1, 10)}
    IN  { m \in [atr: levels, change: levels] : ~RatLess(m.atr, m.change) }

GrInit == \E n \in 2..MaxRecent : gr = [pc |-> "Indicators", n |-> n]

GrWith(fields) ==
    [f \in DOMAIN gr \cup DOMAIN fields |->
        IF f \in DOMAIN fields THEN fields[f] ELSE gr[f]]

\* lines 38-44: the indicators, then _calculate_volatility_score
GrVolatilityScore ==
    /\ gr.pc = "Indicators"
    /\ \E recent_norm_atr \in RecentColumns(gr.n, 0..MaxCell) :
          gr' = GrWith([pc |-> "Volatility",
                        volatility_score |->
                            grid_calculate_volatility_score(recent_norm_atr)])
    /\ UNCHANGED <<lev_cfg, lev_call, lev_prev, vp, an, dr, rsi, bb, px, sw, pl, ir>>

\* line 45
GrTrendScore ==
    /\ gr.pc = "Volatility"
    /\ \E recent_rsi \in RecentColumns(gr.n, RsiValues),
          recent_bb_width \in RecentColumns(gr.n, 0..MaxCell) :
          gr' = GrWith([pc |-> "Trend",
                        trend_score |->
                            grid_calculate_trend_score(recent_rsi, recent_bb_width)])
    /\ UNCHANGED <<lev_cfg, lev_call, lev_prev, vp, an, dr, rsi, bb, px, sw, pl, ir>>

\* lines 46-47
GrVolumeScore ==
    /\ gr.pc = "Trend"
    /\ \E recent_obv \in RecentColumns(gr.n, (-MaxCell)..MaxCell) :
          LET volume_score == grid_calculate_volume_score(recent_obv)
          IN  gr' = GrWith([pc |-> "Scored",
                            volume_score |-> volume_score,
                            composite_score |->
                                composite_score(gr.volatility_score, gr.trend_score,
                                                volume_score)])
    /\ UNCHANGED <<lev_cfg, lev_call, lev_prev, vp, an, dr, rsi, bb, px, sw, pl, ir>>

\* lines 48-58: get_grid_parameters, and the result is returned
GrGridParameters ==
    /\ gr.pc = "Scored"
    /\ \E current_price \in GridPrices, efficiency_ratio \in EfficiencyRatios,
          rsi_mean \in RsiMeans, rsi_last \in RsiLast, m \in PriceMoves :
          gr' = GrWith([pc |-> "Returned",
                        grid |-> get_grid_parameters(
                                    current_price, efficiency_ratio, rsi_mean, rsi_last,
                                    RatMul(current_price, m.atr),
                                    RatMul(current_price, m.change))])
    /\ UNCHANGED <<lev_cfg, lev_call, lev_prev, vp, an, dr, rsi, bb, px, sw, pl, ir>>

GrNext == GrVolatilityScore \/ GrTrendScore \/ GrVolumeScore \/ GrGridParameters

GridInit ==
    /\ GrInit /\ lev_cfg = Idle /\ lev_call = NoCall /\ lev_prev = NoCall
    /\ vp = Idle /\ an = Idle /\ dr = Idle /\ rsi = Idle /\ bb = Idle /\ px = Idle
    /\ sw = Idle /\ pl = Idle /\ ir = Idle

SpecGrid == GridInit /\ [][GrNext]_vars

InUnit(score) == ~score.nan /\ score.v >= 0 /\ score.v <= GS

\* C23: each of the three scores GridAnalyzer computes lies in [0, 1], and
\* so does the composite score.
C23_ScoresInUnitInterval ==
    /\ ("volatility_score" \in DOMAIN gr) => InUnit(gr.volatility_score)
    /\ ("trend_score" \in DOMAIN gr) => InUnit(gr.trend_score)
    /\ ("volume_score" \in DOMAIN gr) => InUnit(gr.volume_score)
    /\ ("composite_score" \in DOMAIN gr) => InUnit(gr.composite_score)

\* C24: one grid cell, (upper_price - lower_price) / grid_number, is at
\* least the minimum grid size of line 179.
C24_GridCellAtLeastMinimum ==
    (gr.pc = "Returned") =>
        ~RatLess(RatDiv(RatSub(gr.grid.upper_price, gr.grid.lower_price),
                        Rat(gr.grid.grid_number, 1)),
                 gr.grid.min_grid_size)

\* C25: for a positive last close the returned bounds satisfy
\* 0 < lower_price < current price < upper_price.
C25_BoundsPositiveAroundPrice ==
    (gr.pc = "Returned" /\ gr.grid.current_price.num > 0) =>
        /\ gr.grid.lower_price.num > 0
        /\ RatLess(gr.grid.lower_price, gr.grid.current_price)
        /\ RatLess(gr.grid.current_price, gr.grid.upper_price)

(***************************************************************************)
(* SwapAnalyzerV2.calculate_trading_advice (services/swap_analyzer_v2.py)  *)
(*                                                                         *)
(* One row of a frame that holds every column the method and the four      *)
(* analyze_* methods read, atr_pct included: the signals are computed as   *)
(* lines 61-69 compute them and handed to calculate_trading_advice.        *)
(* Volatility and volume_ratio are in hundredths, atr_pct in percent, the  *)
(* seven scores in thousandths, the weights in hundredths.                 *)
(***************************************************************************)
\* get_dynamic_rsi_thresholds
get_dynamic_rsi_thresholds(volatility) ==
    IF volatility > 100 THEN [oversold |-> 30 - 10, overbought |-> 70 + 10]
    ELSE IF volatility > 50 THEN [oversold |-> 30 - 5, overbought |-> 70 + 5]
    ELSE [oversold |-> 30, overbought |-> 70]

\* analyze_trend
analyze_trend(close, ma_short, ma_mid, ma_long) ==
    IF close > ma_short /\ ma_short > ma_mid /\ ma_mid > ma_long THEN 2
    ELSE IF close < ma_short /\ ma_short < ma_mid /\ ma_mid < ma_long THEN -2
    ELSE IF close > ma_mid THEN 1
    ELSE IF close < ma_mid THEN -1
    ELSE 0

\* analyze_momentum
analyze_momentum(row_rsi, macd_over_signal, rsi_thresholds) ==
    (IF row_rsi < rsi_thresholds.oversold THEN 1
     ELSE IF row_rsi > rsi_thresholds.overbought THEN -1 ELSE 0)
    + (IF macd_over_signal THEN 1 ELSE -1)

\* analyze_volatility: the score
analyze_volatility(atr_pct) == IF atr_pct > 5 THEN 0 ELSE IF atr_pct > 3 THEN 1 ELSE 2

\* analyze_volume
analyze_volume(volume_ratio) ==
    IF volume_ratio > 150 THEN 2
    ELSE IF volume_ratio > 120 THEN 1
    ELSE IF volume_ratio < 80 THEN -1
    ELSE 0

\* calculate_base_leverage
calculate_base_leverage(volatility) ==
    IF volatility > 100 THEN 1
    ELSE IF volatility > 70 THEN 2
    ELSE IF volatility > 40 THEN 3
    ELSE 4

\* calculate_stop_loss, in tenths of a percent
calculate_stop_loss(atr_pct) == Min2(Max2(atr_pct * 15, 20), 100)

\* calculate_trading_advice: the four cells written to the row; a row whose
\* bands coincide has an undefined bb_position, and with it an undefined
\* weighted score, which compares false with the threshold
calculate_trading_advice(row, signals, volatility, volume_ratio, atr_pct) ==
    LET trend_score      == (Abs(signals.trend) * 1000) \div 2
        momentum_score   == (Abs(signals.momentum) * 1000) \div 2
        volatility_score == (signals.volatility * 1000) \div 2
        volume_score     == (Abs(signals.volume) * 1000) \div 2
        bb_score         == 1000 - Abs(500 - row.bb_position.v)
        rsi_score        == IF row.rsi <= 30 THEN ((30 - row.rsi) * 1000) \div 30
                            ELSE IF row.rsi >= 70 THEN ((row.rsi - 70) * 1000) \div 30
                            ELSE 0
        macd_score       == Min2(row.macd_diff_pct, 1000)
        weighted_score   == trend_score * 25 + momentum_score * 20
                            + volatility_score * 15 + volume_score * 15
                            + bb_score * 10 + rsi_score * 10 + macd_score * 5
        market_penalty   ==
            ((((IF volatility > 80 THEN 800 ELSE 1000)
                 * (IF volume_ratio < 80 THEN 900 ELSE 1000)) \div 1000)
                 * (IF atr_pct > 5 THEN 800 ELSE 1000)) \div 1000
        final_confidence == (weighted_score * market_penalty) \div 1000
        base_leverage    == calculate_base_leverage(volatility)
    IN  IF row.bb_position.nan
        THEN [signal |-> 0, confidence |-> NaNCell, suggested_leverage |-> NaNCell,
              stop_loss_pct |-> calculate_stop_loss(atr_pct)]
        ELSE [signal |-> IF weighted_score >= 60000
                         THEN IF signals.trend > 0 THEN 1 ELSE -1
                         ELSE 0,
              confidence |-> Cell(final_confidence),
              suggested_leverage |-> Cell(base_leverage * final_confidence),
              stop_loss_pct |-> calculate_stop_loss(atr_pct)]

\* the rows: the close against its three moving averages (the 30-row one
\* is the origin), the RSI, the MACD against its signal line, and the
\* position between the bands
AdviceRows ==
    [close: 0..4, ma_short: {1, 3}, ma_mid: {2}, ma_long: {1, 3},
     rsi: {0, 50, 100}, macd_over_signal: BOOLEAN, macd_diff_pct: {0, 2000},
     bb_position: {NaNCell, Cell(500), Cell(1500)}]

AdviceVolatilities == {30, 90, 120}

AdviceVolumeRatios == {50, 100, 130, 160}

AdviceAtrPcts == {2, 4, 6}

AdInit ==
    \E row \in AdviceRows, volatility \in AdviceVolatilities,
       volume_ratio \in AdviceVolumeRatios, atr_pct \in AdviceAtrPcts :
        sw = [pc |-> "row", row |-> row, volatility |-> volatility,
              volume_ratio |-> volume_ratio, atr_pct |-> atr_pct]

\* lines 61-72 on the row
AdAdvise ==
    /\ sw.pc = "row"
    /\ LET rsi_thresholds == get_dynamic_rsi_thresholds(sw.volatility)
           signals ==
               [trend |-> analyze_trend(sw.row.close, sw.row.ma_short,
                                        sw.row.ma_mid, sw.row.ma_long),
                momentum |-> analyze_momentum(sw.row.rsi, sw.row.macd_over_signal,
                                              rsi_thresholds),
                volatility |-> analyze_volatility(sw.atr_pct),
                volume |-> analyze_volume(sw.volume_ratio)]
       IN  sw' = [pc |-> "advised", row |-> sw.row, volatility |-> sw.volatility,
                  volume_ratio |-> sw.volume_ratio, atr_pct |-> sw.atr_pct,
                  signals |-> signals,
                  advice |-> calculate_trading_advice(sw.row, signals, sw.volatility,
                                                      sw.volume_ratio, sw.atr_pct)]
    /\ UNCHANGED <<lev_cfg, lev_call, lev_prev, vp, an, dr, rsi, bb, px, pl, gr, ir>>

TradingAdviceInit ==
    /\ AdInit /\ lev_cfg = Idle /\ lev_call = NoCall /\ lev_prev = NoCall
    /\ vp = Idle /\ an = Idle /\ dr = Idle /\ rsi = Idle /\ bb = Idle
    /\ px = Idle /\ pl = Idle /\ gr = Idle /\ ir = Idle

SpecTradingAdvice == TradingAdviceInit /\ [][AdAdvise]_vars

\* C29: a long signal is set only on a row whose trend signal is positive
\* and a short signal only on a row whose trend signal is negative.
C29_SignalFollowsTrend ==
    (sw.pc = "advised") =>
        /\ (sw.advice.signal = 1) => (sw.signals.trend > 0)
        /\ (sw.advice.signal = -1) => (sw.signals.trend < 0)

(***************************************************************************)
(* IndicatorRegistry and IndicatorManager                                  *)
(*   src/src/indicators/registry.py, src/src/indicators/manager.py         *)
(*                                                                         *)
(* The registry's dict is a sequence of [name, cls] entries in insertion   *)
(* order; the manager's active_indicators is a list of names.              *)
(***************************************************************************)
IndicatorNames == {"RSI", "MACD", "BOLLINGER"}

\* the classes handed to register_indicator; "object" is not a BaseIndicator
IndicatorClasses == {"RSI", "MACD", "BollingerBands", "object"}

issubclass_BaseIndicator(indicator_class) == indicator_class # "object"

DictKeys(dict) == [i \in 1..Len(dict) |-> dict[i].name]

InList(name, list) == \E i \in 1..Len(list) : list[i] = name

\* dict[name] = cls: an existing key keeps its place
DictSet(dict, name, cls) ==
    IF InList(name, DictKeys(dict))
    THEN [i \in 1..Len(dict) |->
              IF dict[i].name = name THEN [name |-> name, cls |-> cls] ELSE dict[i]]
    ELSE Append(dict, [name |-> name, cls |-> cls])

\* list.remove(name), del dict[name]: the first occurrence goes
ListRemove(list, name) ==
    LET at == CHOOSE i \in 1..Len(list) :
                  list[i] = name /\ \A j \in 1..(i - 1) : list[j] # name
    IN  SubSeq(list, 1, at - 1) \o SubSeq(list, at + 1, Len(list))

DictDel(dict, name) ==
    LET at == CHOOSE i \in 1..Len(dict) : dict[i].name = name
    IN  SubSeq(dict, 1, at - 1) \o SubSeq(dict, at + 1, Len(dict))

\* IndicatorRegistry._register_default_indicators
_register_default_indicators ==
    DictSet(DictSet(DictSet(<<>>, "RSI", "RSI"), "MACD", "MACD"),
            "BOLLINGER", "BollingerBands")

list_indicators(dict) == DictKeys(dict)

\* IndicatorRegistry.get_indicator
get_indicator(dict, name) ==
    IF ~InList(name, DictKeys(dict)) THEN "KeyError"
    ELSE dict[CHOOSE i \in 1..Len(dict) : dict[i].name = name].cls

\* the module's registry after import, and a manager made by
\* IndicatorManager(active_indicators) with None or with a list of
\* registered names
IrInit ==
    \E active_indicators \in {<<"None">>, <<>>, <<"RSI">>, <<"MACD", "RSI">>} :
        ir = [_indicators |-> _register_default_indicators,
              active_indicators |->
                  IF active_indicators = <<"None">>
                  THEN list_indicators(_register_default_indicators)
                  ELSE active_indicators,
              out |-> "None"]

IrWith(dict, active, out) ==
    /\ ir' = [_indicators |-> dict, active_indicators |-> active, out |-> out]
    /\ UNCHANGED <<lev_cfg, lev_call, lev_prev, vp, an, dr, rsi, bb, px, sw, pl, gr>>

register_indicator ==
    \E name \in IndicatorNames, indicator_class \in IndicatorClasses :
        IF ~issubclass_BaseIndicator(indicator_class)
        THEN IrWith(ir._indicators, ir.active_indicators, "ValueError")
        ELSE IrWith(DictSet(ir._indicators, name, indicator_class),
                    ir.active_indicators, "None")

unregister_indicator ==
    \E name \in IndicatorNames :
        IF InList(name, DictKeys(ir._indicators))
        THEN IrWith(DictDel(ir._indicators, name), ir.active_indicators, "None")
        ELSE IrWith(ir._indicators, ir.active_indicators, "None")

add_indicator ==
    \E name \in IndicatorNames :
        IF ~InList(name, list_indicators(ir._indicators))
        THEN IrWith(ir._indicators, ir.active_indicators, "ValueError")
        ELSE IF ~InList(name, ir.active_indicators)
             THEN IrWith(ir._indicators, Append(ir.active_indicators, name), "None")
             ELSE IrWith(ir._indicators, ir.active_indicators, "None")

remove_indicator ==
    \E name \in IndicatorNames :
        IF InList(name, ir.active_indicators)
        THEN IrWith(ir._indicators, ListRemove(ir.active_indicators, name), "None")
        ELSE IrWith(ir._indicators, ir.active_indicators, "None")

\* the loop of calculate_indicators: the first active name that
\* get_indicator does not find ends the call with its KeyError
calculate_indicators ==
    IF \E i \in 1..Len(ir.active_indicators) :
           get_indicator(ir._indicators, ir.active_indicators[i]) = "KeyError"
    THEN IrWith(ir._indicators, ir.active_indicators, "KeyError")
    ELSE IrWith(ir._indicators, ir.active_indicators, "indicator_doc")

IrNext ==
    \/ register_indicator
    \/ unregister_indicator
    \/ add_indicator
    \/ remove_indicator
    \/ calculate_indicators

RegistryInit ==
    /\ IrInit /\ lev_cfg = Idle /\ lev_call = NoCall /\ lev_prev = NoCall
    /\ vp = Idle /\ an = Idle /\ dr = Idle /\ rsi = Idle /\ bb = Idle
    /\ px = Idle /\ sw = Idle /\ pl = Idle /\ gr = Idle

SpecRegistry == RegistryInit /\ [][IrNext]_vars

\* C30: every name in the manager's active_indicators is registered in the
\* registry, and calculate_indicators never ends with the KeyError of
\* get_indicator.
C30_ActiveAreRegistered ==
    ("active_indicators" \in DOMAIN ir) =>
        /\ \A i \in 1..Len(ir.active_indicators) :
               InList(ir.active_indicators[i], DictKeys(ir._indicators))
        /\ ir.out # "KeyError"

====
